---- MODULE Spec2Model ----
(***************************************************************************)
(* A model of the QuarkDSL compiler: the type checker, the AST -> SSA      *)
(* lowerer, the optimizer passes and the backends, as a state machine over *)
(* the stages of cli.rs `run`.  Programs are drawn from bounded families   *)
(* of ASTs; the passes and the code generators are operators computed as   *)
(* the Rust code computes them.                                            *)
(***************************************************************************)
EXTENDS Integers, Sequences, FiniteSets, TLC

VARIABLES prog, pc, tc, ir0, ir, iter, overflow_checks, stderr, cli_target, output,
          stdout, file, result, runner

vars == <<prog, pc, tc, ir0, ir, iter, overflow_checks, stderr, cli_target, output,
          stdout, file, result, runner>>

(***************************************************************************)
(* Bounds of the program families.                                         *)
(***************************************************************************)
MaxInt == 3
MaxIter == 3
MaxArgs == 2
MaxBody == 3
MaxSize == 2
MaxGates == 2
MaxChain == 8
MaxWait == 3

(***************************************************************************)
(* Sequence helpers.                                                       *)
(***************************************************************************)
Range(s) == {s[j] : j \in 1..Len(s)}

RECURSIVE SeqsUpTo(_, _)
SeqsUpTo(S, n) ==
    IF n = 0 THEN {<<>>}
    ELSE LET shorter == SeqsUpTo(S, n - 1)
         IN  shorter \cup {Append(q, x) : q \in {r \in shorter : Len(r) = n - 1}, x \in S}

(***************************************************************************)
(* ast.rs: Domain, Type, Expression, Statement, Function.                  *)
(* Option<T> is a sequence of length 0 or 1.  A float literal is the       *)
(* rational num/den in lowest terms with den > 0.                          *)
(***************************************************************************)
Domain == {"Classical", "Gpu", "Quantum"}

TInt == [ty |-> "Int"]
TFloat == [ty |-> "Float"]
TBool == [ty |-> "Bool"]
TQubit == [ty |-> "Qubit"]
TVoid == [ty |-> "Void"]
TQState == [ty |-> "QState"]
TArray(elem, size) == [ty |-> "Array", elem |-> elem, size |-> size]
TTensor(elem) == [ty |-> "Tensor", elem |-> elem]

\* An i64 is written hi * 2^63 + n with hi in {-1, 0, 1} and n small: hi = 0 for the
\* small integers, (1, -1) for i64::MAX, (-1, 0) for i64::MIN.
IntLiteral(n) == [e |-> "IntLiteral", hi |-> 0, n |-> n]
\* 9223372036854775807, the largest literal the lexer accepts.
IntLiteralMax == [e |-> "IntLiteral", hi |-> 1, n |-> -1]
FloatLiteral(n, d) == [e |-> "FloatLiteral", n |-> n, d |-> d]
BoolLiteral(b) == [e |-> "BoolLiteral", b |-> b]
Variable(name) == [e |-> "Variable", name |-> name]
ArrayLiteral(elements) == [e |-> "ArrayLiteral", elements |-> elements]
Index(array, index) == [e |-> "Index", array |-> array, index |-> index]
Binary(op, left, right) == [e |-> "Binary", op |-> op, left |-> left, right |-> right]
Unary(op, operand) == [e |-> "Unary", op |-> op, operand |-> operand]
CallExpr(function, args) == [e |-> "Call", function |-> function, args |-> args]
MapExpr(function, array) == [e |-> "Map", function |-> function, array |-> array]

Let(name, value) == [s |-> "Let", name |-> name, ty |-> <<>>, value |-> value]
LetTyped(name, ty, value) == [s |-> "Let", name |-> name, ty |-> <<ty>>, value |-> value]
AssignStmt(target, value) == [s |-> "Assign", target |-> target, index |-> <<>>, value |-> value]
AssignIndexed(target, index, value) ==
    [s |-> "Assign", target |-> target, index |-> <<index>>, value |-> value]
ReturnStmt(value) == [s |-> "Return", value |-> value]
ExprStmt(value) == [s |-> "Expression", value |-> value]
ForStmt(var, start, end, body) ==
    [s |-> "For", var |-> var, start |-> start, end |-> end, body |-> body]
IfStmt(condition, then_body) ==
    [s |-> "If", condition |-> condition, then_body |-> then_body, else_body |-> <<>>]
IfElseStmt(condition, then_body, else_body) ==
    [s |-> "If", condition |-> condition, then_body |-> then_body, else_body |-> <<else_body>>]

Param(name, ty) == [name |-> name, ty |-> ty]
Function(name, params, return_type, body, domain) ==
    [name |-> name, params |-> params, return_type |-> return_type,
     body |-> body, domain |-> domain]

ArithOps == {"Add", "Sub", "Mul", "Div", "Mod"}
CompareOps == {"Eq", "Ne", "Lt", "Le", "Gt", "Ge"}
LogicOps == {"And", "Or"}
BinOps == ArithOps \cup CompareOps \cup LogicOps

(***************************************************************************)
(* typecheck.rs.  A result is [err, ty, info]; err = "" means Ok(ty), and  *)
(* info lists the INFO lines written to stderr while it was computed.      *)
(***************************************************************************)
TcOk(ty) == [err |-> "", ty |-> ty, info |-> <<>>]
TcErr(msg) == [err |-> msg, ty |-> TVoid, info |-> <<>>]

\* The result r of a step taken after the lines of info were written.
Emitting(info, r) == [r EXCEPT !.info = info \o @]

Sig(param_types, return_type, domain) ==
    [param_types |-> param_types, return_type |-> return_type, domain |-> domain]

\* register_builtin_functions: the table the checker starts from.
builtin_functions ==
    [name \in {"print", "print_float", "print_array", "h", "x", "y", "z",
               "ry", "rz", "cx", "cnot", "measure"} |->
        CASE name = "print" -> Sig(<<TInt>>, TVoid, "Classical")
          [] name = "print_float" -> Sig(<<TFloat>>, TVoid, "Classical")
          [] name = "print_array" -> Sig(<<TArray(TFloat, <<>>)>>, TVoid, "Classical")
          [] name \in {"h", "x", "y", "z", "measure"} -> Sig(<<TInt>>, TInt, "Quantum")
          [] name \in {"ry", "rz"} -> Sig(<<TInt, TFloat>>, TInt, "Quantum")
          [] OTHER -> Sig(<<TInt, TInt>>, TInt, "Quantum")]

\* HashMap::insert on a map kept as a function.
MapInsert(m, key, val) == [n \in DOMAIN m \cup {key} |-> IF n = key THEN val ELSE m[n]]

\* types_compatible with the two arms between Array and Tensor left out.
RECURSIVE types_compatible_same_kind(_, _)
types_compatible_same_kind(expected, actual) ==
    IF expected.ty \in {"Array", "Tensor"} /\ actual.ty = expected.ty
    THEN types_compatible_same_kind(expected.elem, actual.elem)
    ELSE expected = actual

RECURSIVE types_compatible(_, _)
types_compatible(expected, actual) ==
    IF expected.ty \in {"Array", "Tensor"} /\ actual.ty \in {"Array", "Tensor"}
    THEN types_compatible(expected.elem, actual.elem)
    ELSE expected = actual

\* The check of a call's target domain that writes no line.
cross_domain_info_silent(current_domain, target_domain, function) == <<>>

\* `if self.current_domain != target_domain { eprintln!("INFO: Cross-domain call ...") }`
cross_domain_info(current_domain, target_domain, function) ==
    IF current_domain # target_domain
    THEN <<[info |-> "Cross-domain call", from |-> current_domain, to |-> target_domain,
            function |-> function]>>
    ELSE <<>>

RECURSIVE infer_expression(_, _)
RECURSIVE infer_elements(_, _, _, _)
RECURSIVE infer_args(_, _, _, _)

\* The loop over elements[1..] of an array literal.
infer_elements(st, elements, j, first_type) ==
    IF j > Len(elements) THEN TcOk(TArray(first_type, <<Len(elements)>>))
    ELSE LET r == infer_expression(st, elements[j])
         IN  IF r.err # "" THEN r
             ELSE IF ~types_compatible(first_type, r.ty)
                  THEN Emitting(r.info, TcErr("Array elements must have same type"))
                  ELSE Emitting(r.info, infer_elements(st, elements, j + 1, first_type))

\* The loop over args zipped with param_types of a call.
infer_args(st, args, param_types, j) ==
    IF j > Len(args) THEN TcOk(TVoid)
    ELSE LET r == infer_expression(st, args[j])
         IN  IF r.err # "" THEN r
             ELSE IF ~types_compatible(param_types[j], r.ty)
                  THEN Emitting(r.info, TcErr("Argument type mismatch"))
                  ELSE Emitting(r.info, infer_args(st, args, param_types, j + 1))

infer_expression(st, expr) ==
    CASE expr.e = "IntLiteral" -> TcOk(TInt)
      [] expr.e = "FloatLiteral" -> TcOk(TFloat)
      [] expr.e = "BoolLiteral" -> TcOk(TBool)
      [] expr.e = "Variable" ->
            IF expr.name \in DOMAIN st.variables THEN TcOk(st.variables[expr.name])
            ELSE TcErr("Undefined variable")
      [] expr.e = "ArrayLiteral" ->
            IF Len(expr.elements) = 0 THEN TcErr("Cannot infer type of empty array")
            ELSE LET first == infer_expression(st, expr.elements[1])
                 IN  IF first.err # "" THEN first
                     ELSE Emitting(first.info,
                                   infer_elements(st, expr.elements, 2, first.ty))
      [] expr.e = "Index" ->
            LET a == infer_expression(st, expr.array)
            IN  IF a.err # "" THEN a
                ELSE LET ix == Emitting(a.info, infer_expression(st, expr.index))
                     IN  IF ix.err # "" THEN ix
                         ELSE IF ix.ty # TInt
                              THEN Emitting(ix.info, TcErr("Array index must be int"))
                         ELSE IF a.ty.ty = "Array" THEN Emitting(ix.info, TcOk(a.ty.elem))
                         ELSE Emitting(ix.info, TcErr("Cannot index non-array type"))
      [] expr.e = "Binary" ->
            LET l == infer_expression(st, expr.left)
            IN  IF l.err # "" THEN l
                ELSE LET r == Emitting(l.info, infer_expression(st, expr.right))
                     IN  IF r.err # "" THEN r
                         ELSE Emitting(r.info,
                                  IF expr.op \in ArithOps
                                  THEN IF l.ty = TInt /\ r.ty = TInt THEN TcOk(TInt)
                                       ELSE IF l.ty = TFloat /\ r.ty = TFloat THEN TcOk(TFloat)
                                       ELSE TcErr("Type mismatch in arithmetic operation")
                                  ELSE IF expr.op \in CompareOps
                                  THEN IF ~types_compatible(l.ty, r.ty)
                                       THEN TcErr("Type mismatch in comparison")
                                       ELSE TcOk(TBool)
                                  ELSE IF l.ty # TBool \/ r.ty # TBool
                                       THEN TcErr("Logical operators require bool operands")
                                       ELSE TcOk(TBool))
      [] expr.e = "Unary" ->
            LET o == infer_expression(st, expr.operand)
            IN  IF o.err # "" THEN o
                ELSE Emitting(o.info,
                         IF expr.op = "Neg"
                         THEN IF o.ty = TInt \/ o.ty = TFloat THEN TcOk(o.ty)
                              ELSE TcErr("Negation requires numeric type")
                         ELSE IF o.ty = TBool THEN TcOk(TBool)
                              ELSE TcErr("Logical not requires bool"))
      [] expr.e = "Call" ->
            IF expr.function \notin DOMAIN st.functions THEN TcErr("Undefined function")
            ELSE LET sig == st.functions[expr.function]
                     info == cross_domain_info(st.current_domain, sig.domain, expr.function)
                 IN  IF Len(expr.args) # Len(sig.param_types)
                     THEN Emitting(info, TcErr("Arity mismatch"))
                     ELSE LET r == Emitting(info, infer_args(st, expr.args, sig.param_types, 1))
                          IN  IF r.err # "" THEN r
                              ELSE Emitting(r.info, TcOk(sig.return_type))
      [] expr.e = "Map" ->
            LET a == infer_expression(st, expr.array)
            IN  IF a.err # "" THEN a
                ELSE Emitting(a.info,
                         IF expr.function \notin DOMAIN st.functions
                         THEN TcErr("Undefined function")
                         ELSE LET sig == st.functions[expr.function]
                              IN  IF Len(sig.param_types) # 1
                                  THEN TcErr("Map function must take exactly one argument")
                                  ELSE IF a.ty.ty # "Array"
                                       THEN TcErr("Map requires array argument")
                                  ELSE IF ~types_compatible(sig.param_types[1], a.ty.elem)
                                       THEN TcErr("Map function parameter type mismatch")
                                       ELSE TcOk(TArray(sig.return_type, a.ty.size)))

\* The checker after an expression was inferred with result r: its lines are on stderr,
\* and its error, if any, is the error of the statement.
Inferred(st, r) == [st EXCEPT !.err = r.err, !.info = @ \o r.info]

\* `bail!(msg)`
Bail(st, msg) == [st EXCEPT !.err = msg]

RECURSIVE check_statement(_, _)
RECURSIVE check_statements(_, _, _)

\* `for stmt in body { self.check_statement(stmt)?; }`
check_statements(st, body, j) ==
    IF j > Len(body) \/ st.err # "" THEN st
    ELSE check_statements(check_statement(st, body[j]), body, j + 1)

check_statement(st, stmt) ==
    CASE stmt.s = "Let" ->
            LET v == infer_expression(st, stmt.value)
                s1 == Inferred(st, v)
            IN  IF v.err # "" THEN s1
                ELSE IF Len(stmt.ty) = 1
                     THEN IF ~types_compatible(stmt.ty[1], v.ty)
                          THEN Bail(s1, "Type mismatch")
                          ELSE [s1 EXCEPT !.variables = MapInsert(@, stmt.name, stmt.ty[1])]
                     ELSE [s1 EXCEPT !.variables = MapInsert(@, stmt.name, v.ty)]
      [] stmt.s = "Assign" ->
            IF stmt.target \notin DOMAIN st.variables
            THEN Bail(st, "Undefined variable")
            ELSE LET var_type == st.variables[stmt.target]
                     v == infer_expression(st, stmt.value)
                     s1 == Inferred(st, v)
                 IN  IF v.err # "" THEN s1
                     ELSE IF Len(stmt.index) = 1
                          THEN LET ix == infer_expression(s1, stmt.index[1])
                                   s2 == Inferred(s1, ix)
                               IN  IF ix.err # "" THEN s2
                                   ELSE IF ix.ty # TInt
                                        THEN Bail(s2, "Array index must be int")
                                   ELSE IF var_type.ty = "Array"
                                        THEN IF ~types_compatible(var_type.elem, v.ty)
                                             THEN Bail(s2, "Type mismatch in array assignment")
                                             ELSE s2
                                        ELSE Bail(s2, "Cannot index non-array type")
                          ELSE IF ~types_compatible(var_type, v.ty)
                               THEN Bail(s1, "Type mismatch in assignment")
                               ELSE s1
      [] stmt.s \in {"Return", "Expression"} ->
            Inferred(st, infer_expression(st, stmt.value))
      [] stmt.s = "For" ->
            LET lo == infer_expression(st, stmt.start)
                s1 == Inferred(st, lo)
            IN  IF lo.err # "" THEN s1
                ELSE LET hi == infer_expression(s1, stmt.end)
                         s2 == Inferred(s1, hi)
                     IN  IF hi.err # "" THEN s2
                         ELSE IF lo.ty # TInt \/ hi.ty # TInt
                              THEN Bail(s2, "For loop bounds must be int")
                              ELSE check_statements(
                                       [s2 EXCEPT !.variables = MapInsert(@, stmt.var, TInt)],
                                       stmt.body, 1)
      [] stmt.s = "If" ->
            LET c == infer_expression(st, stmt.condition)
                s1 == Inferred(st, c)
            IN  IF c.err # "" THEN s1
                ELSE IF c.ty # TBool THEN Bail(s1, "If condition must be bool")
                ELSE LET t == check_statements(s1, stmt.then_body, 1)
                     IN  IF Len(stmt.else_body) = 1
                         THEN check_statements(t, stmt.else_body[1], 1)
                         ELSE t

\* Seeds the scope with the parameters, in order (a later duplicate name wins).
RECURSIVE SeedParams(_, _, _)
SeedParams(variables, params, j) ==
    IF j > Len(params) THEN variables
    ELSE SeedParams(MapInsert(variables, params[j].name, params[j].ty), params, j + 1)

check_function(st, func) ==
    check_statements(
        [st EXCEPT !.variables = SeedParams(<<>>, func.params, 1),
                   !.current_domain = func.domain],
        func.body, 1)

\* First pass of check_program: signatures over the built-in table.
RECURSIVE CollectSignatures(_, _, _)
CollectSignatures(functions, fs, j) ==
    IF j > Len(fs) THEN functions
    ELSE CollectSignatures(
             MapInsert(functions, fs[j].name,
                       Sig([p \in 1..Len(fs[j].params) |-> fs[j].params[p].ty],
                           fs[j].return_type, fs[j].domain)),
             fs, j + 1)

RECURSIVE CheckFunctions(_, _, _)
CheckFunctions(st, fs, j) ==
    IF j > Len(fs) \/ st.err # "" THEN st
    ELSE CheckFunctions(check_function(st, fs[j]), fs, j + 1)

\* The checker when check_program returns: err, and info, the lines on stderr.
check_program(program) ==
    CheckFunctions([variables |-> <<>>,
                    functions |-> CollectSignatures(builtin_functions, program, 1),
                    current_domain |-> "Classical",
                    err |-> "",
                    info |-> <<>>],
                   program, 1)

\* typecheck(): "" for Ok(()), otherwise the error.
typecheck(program) == check_program(program).err

(***************************************************************************)
(* ir.rs: Value, Instruction, Terminator, BasicBlock, IRFunction.          *)
(* An SSAVar is its id.  Call.dest is an Option (a sequence).              *)
(***************************************************************************)
Var(id) == [k |-> "Var", id |-> id]
I64(hi, n) == [k |-> "Int", hi |-> hi, n |-> n]
IntVal(n) == I64(0, n)
Float(n, d) == [k |-> "Float", n |-> n, d |-> d]
Bool(b) == [k |-> "Bool", b |-> b]
Array(elems) == [k |-> "Array", elems |-> elems]

Assign(dest, value) == [i |-> "Assign", dest |-> dest, value |-> value]
BinaryOp(dest, op, left, right) ==
    [i |-> "BinaryOp", dest |-> dest, op |-> op, left |-> left, right |-> right]
UnaryOp(dest, op, operand) == [i |-> "UnaryOp", dest |-> dest, op |-> op, operand |-> operand]
Load(dest, array, index) == [i |-> "Load", dest |-> dest, array |-> array, index |-> index]
Store(array, index, value) == [i |-> "Store", array |-> array, index |-> index, value |-> value]
Call(dest, function, args) == [i |-> "Call", dest |-> dest, function |-> function, args |-> args]
DomainConversion(dest, source, from_domain, to_domain, encoding) ==
    [i |-> "DomainConversion", dest |-> dest, source |-> source,
     from_domain |-> from_domain, to_domain |-> to_domain, encoding |-> encoding]

Return(value) == [t |-> "Return", value |-> value]
ReturnVoid == [t |-> "ReturnVoid"]

BasicBlock(label, instructions, terminator) ==
    [label |-> label, instructions |-> instructions, terminator |-> terminator]

(***************************************************************************)
(* lower.rs.  The Lowerer is the record st: current_block (instructions    *)
(* and terminator), var_counter, var_map, function_domains,                *)
(* current_domain; err holds the error a `?` would return ("" for none).   *)
(* info lists the INFO lines written to stderr.                            *)
(* Three fields record what was emitted and are read by no operation:      *)
(* origins[j] names the construct that emitted instruction j, names[j] the *)
(* source name it binds or re-assigns ("" for none), and returns lists the *)
(* values of the Return statements lowered so far.                         *)
(***************************************************************************)
\* start < end on i64 values.
I64Less(l, r) == l.hi < r.hi \/ (l.hi = r.hi /\ l.n < r.n)

\* fresh_var without the increment of var_counter.
fresh_var_stale(st) == st

fresh_var(st) == [st EXCEPT !.var_counter = @ + 1]

\* emit_instruction for a statement that binds or re-assigns the source name `name`.
emit_named(st, inst, origin, name) ==
    [st EXCEPT !.instructions = Append(@, inst), !.origins = Append(@, origin),
               !.names = Append(@, name)]

emit_instruction(st, inst, origin) == emit_named(st, inst, origin, "")

RECURSIVE convert_type(_)
convert_type(ty) ==
    CASE ty.ty = "Array" -> [ty |-> "Array", elem |-> convert_type(ty.elem), size |-> ty.size]
      [] ty.ty = "Tensor" -> [ty |-> "Array", elem |-> convert_type(ty.elem), size |-> <<>>]
      [] ty.ty = "QState" -> [ty |-> "Qubit"]
      [] OTHER -> ty

builtin_quantum_fns == {"h", "x", "y", "z", "rx", "ry", "rz", "cx", "cnot", "cz", "measure"}
builtin_io_fns == {"print", "print_float", "print_array"}

\* is_builtin that knows the I/O built-ins only.
is_builtin_io(function) == function \in builtin_io_fns

is_builtin(function) == function \in builtin_quantum_fns \/ function \in builtin_io_fns

\* The match with the arm of the calls out of the Quantum domain left out.
conversion_encoding_default(from, to) == "AngleEncoding"

\* The match on (current_domain, target_domain) that selects the encoding.
conversion_encoding(from, to) ==
    CASE from \in {"Gpu", "Classical"} /\ to = "Quantum" -> "AngleEncoding"
      [] from = "Quantum" /\ to \in {"Gpu", "Classical"} -> "MeasurementExtract"
      [] OTHER -> "AngleEncoding"

\* function_domains.get(function).cloned().unwrap_or(Classical)
target_domain_of(st, function) ==
    IF function \in DOMAIN st.function_domains THEN st.function_domains[function]
    ELSE "Classical"

\* The condition under which the arguments of a call are converted.
needs_conversion(st, function) ==
    ~is_builtin(function) /\ st.current_domain # target_domain_of(st, function)

\* `eprintln!("INFO: Inserting conversion for {:?} -> {:?} call to '{}'", ...)`
conversion_info(st, function) ==
    [st EXCEPT !.info = Append(@, [info |-> "Inserting conversion",
                                   from |-> st.current_domain,
                                   to |-> target_domain_of(st, function),
                                   function |-> function])]

\* The map over arg_vals emitting the conversions and still passing the arguments.
RECURSIVE convert_args_unused(_, _, _, _, _)
convert_args_unused(st, arg_vals, target_domain, j, acc) ==
    IF j > Len(arg_vals) THEN [st |-> st, vals |-> arg_vals]
    ELSE convert_args_unused(
             emit_instruction(fresh_var(st),
                 DomainConversion(st.var_counter, arg_vals[j], st.current_domain,
                                  target_domain,
                                  conversion_encoding(st.current_domain, target_domain)),
                 "conv"),
             arg_vals, target_domain, j + 1, acc)

\* arg_vals.iter().map(|arg| { fresh_var; emit DomainConversion; Var(conv_dest) })
RECURSIVE convert_args(_, _, _, _, _)
convert_args(st, arg_vals, target_domain, j, acc) ==
    IF j > Len(arg_vals) THEN [st |-> st, vals |-> acc]
    ELSE LET conv_dest == st.var_counter
             s1 == fresh_var(st)
             s2 == emit_instruction(s1,
                       DomainConversion(conv_dest, arg_vals[j], st.current_domain,
                                        target_domain,
                                        conversion_encoding(st.current_domain, target_domain)),
                       "conv")
         IN  convert_args(s2, arg_vals, target_domain, j + 1, Append(acc, Var(conv_dest)))

RECURSIVE lower_expression(_, _)
RECURSIVE lower_expressions(_, _, _, _)
RECURSIVE lower_statement(_, _)
RECURSIVE lower_statements(_, _, _)
RECURSIVE unroll(_, _, _, _, _)

NoValue == IntVal(0)
Failed(st, msg) == [st |-> [st EXCEPT !.err = msg], val |-> NoValue]

\* `.iter().map(|e| self.lower_expression(e)).collect::<Result<Vec<_>>>()`
lower_expressions(st, exprs, j, acc) ==
    IF j > Len(exprs) \/ st.err # "" THEN [st |-> st, vals |-> acc]
    ELSE LET r == lower_expression(st, exprs[j])
         IN  lower_expressions(r.st, exprs, j + 1, Append(acc, r.val))

lower_expression(st, expr) ==
    CASE expr.e = "IntLiteral" -> [st |-> st, val |-> I64(expr.hi, expr.n)]
      [] expr.e = "FloatLiteral" -> [st |-> st, val |-> Float(expr.n, expr.d)]
      [] expr.e = "BoolLiteral" -> [st |-> st, val |-> Bool(expr.b)]
      [] expr.e = "Variable" ->
            IF expr.name \in DOMAIN st.var_map
            THEN [st |-> st, val |-> Var(st.var_map[expr.name])]
            ELSE Failed(st, "Undefined variable")
      [] expr.e = "ArrayLiteral" ->
            LET r == lower_expressions(st, expr.elements, 1, <<>>)
            IN  [st |-> r.st, val |-> Array(r.vals)]
      [] expr.e = "Index" ->
            LET a == lower_expression(st, expr.array)
            IN  IF a.st.err # "" THEN a
                ELSE LET ix == lower_expression(a.st, expr.index)
                     IN  IF ix.st.err # "" THEN ix
                         ELSE IF a.val.k = "Var"
                              THEN LET dest == ix.st.var_counter
                                   IN  [st |-> emit_instruction(fresh_var(ix.st),
                                                    Load(dest, a.val.id, ix.val), "load"),
                                        val |-> Var(dest)]
                              ELSE Failed(ix.st, "Array indexing requires variable")
      [] expr.e = "Binary" ->
            LET l == lower_expression(st, expr.left)
            IN  IF l.st.err # "" THEN l
                ELSE LET r == lower_expression(l.st, expr.right)
                     IN  IF r.st.err # "" THEN r
                         ELSE LET dest == r.st.var_counter
                              IN  [st |-> emit_instruction(fresh_var(r.st),
                                               BinaryOp(dest, expr.op, l.val, r.val), "binop"),
                                   val |-> Var(dest)]
      [] expr.e = "Unary" ->
            LET o == lower_expression(st, expr.operand)
            IN  IF o.st.err # "" THEN o
                ELSE LET dest == o.st.var_counter
                     IN  [st |-> emit_instruction(fresh_var(o.st),
                                      UnaryOp(dest, expr.op, o.val), "unop"),
                          val |-> Var(dest)]
      [] expr.e = "Call" ->
            LET a == lower_expressions(st, expr.args, 1, <<>>)
            IN  IF a.st.err # "" THEN [st |-> a.st, val |-> NoValue]
                ELSE LET c == IF needs_conversion(a.st, expr.function)
                              THEN convert_args(conversion_info(a.st, expr.function), a.vals,
                                                target_domain_of(a.st, expr.function), 1, <<>>)
                              ELSE a
                         dest == c.st.var_counter
                     IN  [st |-> emit_instruction(fresh_var(c.st),
                                      Call(<<dest>>, expr.function, c.vals), "call"),
                          val |-> Var(dest)]
      [] expr.e = "Map" ->
            LET a == lower_expression(st, expr.array)
            IN  IF a.st.err # "" THEN a
                ELSE LET dest == a.st.var_counter
                     IN  [st |-> emit_instruction(fresh_var(a.st),
                                      Call(<<dest>>, "map_" \o expr.function, <<a.val>>), "map"),
                          val |-> Var(dest)]

\* `for stmt in body { self.lower_statement(stmt)?; }`
lower_statements(st, body, j) ==
    IF j > Len(body) \/ st.err # "" THEN st
    ELSE lower_statements(lower_statement(st, body[j]), body, j + 1)

\* The unrolling over start_int..=end_int.
RECURSIVE unroll_inclusive(_, _, _, _, _)
unroll_inclusive(st, var, i, end_int, body) ==
    IF i > end_int \/ st.err # "" THEN st
    ELSE LET loop_var == st.var_counter
             s1 == [fresh_var(st) EXCEPT !.var_map = MapInsert(@, var, loop_var)]
             s2 == emit_named(s1, Assign(loop_var, IntVal(i)), "loopvar", var)
         IN  unroll_inclusive(lower_statements(s2, body, 1), var, i + 1, end_int, body)

\* `for i in start_int..end_int { fresh loop variable; Assign; body }`
unroll(st, var, i, end_int, body) ==
    IF i >= end_int \/ st.err # "" THEN st
    ELSE LET loop_var == st.var_counter
             s1 == [fresh_var(st) EXCEPT !.var_map = MapInsert(@, var, loop_var)]
             s2 == emit_named(s1, Assign(loop_var, IntVal(i)), "loopvar", var)
         IN  unroll(lower_statements(s2, body, 1), var, i + 1, end_int, body)

\* A Return arm that keeps the terminator of an earlier return statement.
set_return_first(st, val) ==
    [st EXCEPT !.terminator = IF @ = ReturnVoid THEN Return(val) ELSE @,
               !.returns = Append(@, val)]

\* The Return arm: sets the terminator of the current block.
set_return(st, val) ==
    [st EXCEPT !.terminator = Return(val), !.returns = Append(@, val)]

lower_statement(st, stmt) ==
    CASE stmt.s = "Let" ->
            LET v == lower_expression(st, stmt.value)
            IN  IF v.st.err # "" THEN v.st
                ELSE LET dest == v.st.var_counter
                         s1 == [fresh_var(v.st) EXCEPT !.var_map = MapInsert(@, stmt.name, dest)]
                     IN  emit_named(s1, Assign(dest, v.val), "let", stmt.name)
      [] stmt.s = "Assign" ->
            LET v == lower_expression(st, stmt.value)
            IN  IF v.st.err # "" THEN v.st
                ELSE IF stmt.target \notin DOMAIN v.st.var_map
                     THEN [v.st EXCEPT !.err = "Undefined variable"]
                ELSE LET var == v.st.var_map[stmt.target]
                     IN  IF Len(stmt.index) = 1
                         THEN LET ix == lower_expression(v.st, stmt.index[1])
                              IN  IF ix.st.err # "" THEN ix.st
                                  ELSE emit_instruction(ix.st, Store(var, ix.val, v.val), "store")
                         ELSE emit_named(v.st, Assign(var, v.val), "reassign", stmt.target)
      [] stmt.s = "Return" ->
            LET v == lower_expression(st, stmt.value)
            IN  IF v.st.err # "" THEN v.st ELSE set_return(v.st, v.val)
      [] stmt.s = "Expression" -> lower_expression(st, stmt.value).st
      [] stmt.s = "For" ->
            LET lo == lower_expression(st, stmt.start)
            IN  IF lo.st.err # "" THEN lo.st
                ELSE LET hi == lower_expression(lo.st, stmt.end)
                     IN  IF hi.st.err # "" THEN hi.st
                         ELSE IF lo.val.k = "Int" /\ hi.val.k = "Int"
                              THEN IF lo.val.hi = 0 /\ hi.val.hi = 0
                                   THEN unroll(hi.st, stmt.var, lo.val.n, hi.val.n,
                                               stmt.body)
                                   ELSE IF ~I64Less(lo.val, hi.val) THEN hi.st
                                   ELSE [hi.st EXCEPT !.err = "unrolling exhausts memory"]
                              ELSE LET loop_var == hi.st.var_counter
                                       s1 == [fresh_var(hi.st) EXCEPT
                                                 !.var_map = MapInsert(@, stmt.var, loop_var)]
                                       s2 == emit_named(s1, Assign(loop_var, lo.val),
                                                        "loopvar", stmt.var)
                                   IN  lower_statements(s2, stmt.body, 1)
      [] stmt.s = "If" ->
            LET c == lower_expression(st, stmt.condition)
            IN  IF c.st.err # "" THEN c.st
                ELSE LET t == lower_statements(c.st, stmt.then_body, 1)
                     IN  IF Len(stmt.else_body) = 1
                         THEN lower_statements(t, stmt.else_body[1], 1)
                         ELSE t

\* The loop that binds each parameter to a fresh variable.
RECURSIVE BindParams(_, _, _)
BindParams(st, params, j) ==
    IF j > Len(params) THEN st
    ELSE BindParams([fresh_var(st) EXCEPT !.var_map = MapInsert(@, params[j].name, st.var_counter)],
                    params, j + 1)

\* The Lowerer as lower_function has it before the first statement: counter and map
\* reset, the parameters bound, an empty entry block ending in ReturnVoid.
entry_state(function_domains, func) ==
    BindParams([instructions |-> <<>>, terminator |-> ReturnVoid,
                var_counter |-> 0, var_map |-> <<>>,
                function_domains |-> function_domains,
                current_domain |-> func.domain,
                err |-> "", info |-> <<>>,
                origins |-> <<>>, names |-> <<>>, returns |-> <<>>],
               func.params, 1)

\* lower_function: the Lowerer after the body.
lower_function_state(function_domains, func) ==
    lower_statements(entry_state(function_domains, func), func.body, 1)

\* The IRFunction built from the Lowerer st after the body of func.
function_result(func, st) ==
    [err |-> st.err,
     info |-> st.info,
     func |-> [name |-> func.name,
               params |-> [p \in 1..Len(func.params) |->
                              [name |-> func.params[p].name,
                               ty |-> convert_type(func.params[p].ty)]],
               return_type |-> convert_type(func.return_type),
               blocks |-> <<BasicBlock("entry", st.instructions, st.terminator)>>,
               next_var_id |-> st.var_counter,
               domain |-> func.domain],
     origins |-> st.origins,
     names |-> st.names,
     returns |-> st.returns]

lower_function(function_domains, func) ==
    function_result(func, lower_function_state(function_domains, func))

\* First pass of lower_module: function_domains, a later duplicate name winning.
RECURSIVE CollectDomains(_, _, _)
CollectDomains(m, fs, j) ==
    IF j > Len(fs) THEN m
    ELSE CollectDomains(MapInsert(m, fs[j].name, fs[j].domain), fs, j + 1)

\* The error of the first function that failed to lower ("" when none did).
RECURSIVE FirstError(_, _)
FirstError(rs, j) ==
    IF j > Len(rs) THEN ""
    ELSE IF rs[j].err # "" THEN rs[j].err ELSE FirstError(rs, j + 1)

\* The lines on stderr when lower_module returns: those of the functions lowered, which
\* are the functions up to the first that failed.
RECURSIVE InfoUntilError(_, _)
InfoUntilError(rs, j) ==
    IF j > Len(rs) THEN <<>>
    ELSE rs[j].info \o (IF rs[j].err # "" THEN <<>> ELSE InfoUntilError(rs, j + 1))

\* The Module of lower_module from the per-function results rs.
module_result(rs) ==
    [err |-> FirstError(rs, 1),
     info |-> InfoUntilError(rs, 1),
     functions |-> [f \in 1..Len(rs) |-> rs[f].func],
     origins |-> [f \in 1..Len(rs) |-> rs[f].origins],
     names |-> [f \in 1..Len(rs) |-> rs[f].names],
     returns |-> [f \in 1..Len(rs) |-> rs[f].returns]]

\* Second pass of lower_module, every function under the same function_domains.
lower_functions(function_domains, program) ==
    [f \in 1..Len(program) |-> lower_function(function_domains, program[f])]

\* lower_to_ir: err is the first function's error ("" for Ok); functions, origins
\* and returns are per function, in program order.
lower_to_ir(program) ==
    module_result(lower_functions(CollectDomains(<<>>, program, 1), program))

(***************************************************************************)
(* optimize.rs.                                                            *)
(***************************************************************************)
\* All instructions of a function, block after block.
RECURSIVE AllInstructions(_, _)
AllInstructions(blocks, j) ==
    IF j > Len(blocks) THEN <<>>
    ELSE blocks[j].instructions \o AllInstructions(blocks, j + 1)

get_dest(inst) ==
    CASE inst.i \in {"Assign", "BinaryOp", "UnaryOp", "Load", "Phi"} -> <<inst.dest>>
      [] inst.i = "Call" -> inst.dest
      [] OTHER -> <<>>

get_operands(inst) ==
    CASE inst.i = "Assign" -> <<inst.value>>
      [] inst.i = "BinaryOp" -> <<inst.left, inst.right>>
      [] inst.i = "UnaryOp" -> <<inst.operand>>
      [] inst.i = "Load" -> <<inst.index>>
      [] inst.i = "Store" -> <<inst.index, inst.value>>
      [] inst.i = "Call" -> inst.args
      [] inst.i = "DomainConversion" -> <<inst.source>>

\* is_side_effecting that holds of a Store only.
is_side_effecting_store(inst) == inst.i = "Store"

is_side_effecting(inst) == inst.i \in {"Store", "Call", "DomainConversion"}

\* The variables mark_value_used inserts for a value.
RECURSIVE mark_value_used(_)
mark_value_used(val) ==
    CASE val.k = "Var" -> {val.id}
      [] val.k = "Array" -> UNION {mark_value_used(val.elems[j]) : j \in 1..Len(val.elems)}
      [] OTHER -> {}

RECURSIVE replace_value(_, _)
replace_value(value, copy_map) ==
    CASE value.k = "Var" -> IF value.id \in DOMAIN copy_map THEN copy_map[value.id] ELSE value
      [] value.k = "Array" ->
            Array([j \in 1..Len(value.elems) |-> replace_value(value.elems[j], copy_map)])
      [] OTHER -> value

replace_value_uses(inst, copy_map) ==
    CASE inst.i = "Assign" -> [inst EXCEPT !.value = replace_value(@, copy_map)]
      [] inst.i = "BinaryOp" -> [inst EXCEPT !.left = replace_value(@, copy_map),
                                             !.right = replace_value(@, copy_map)]
      [] inst.i = "UnaryOp" -> [inst EXCEPT !.operand = replace_value(@, copy_map)]
      [] inst.i = "Load" -> [inst EXCEPT !.index = replace_value(@, copy_map)]
      [] inst.i = "Store" -> [inst EXCEPT !.index = replace_value(@, copy_map),
                                          !.value = replace_value(@, copy_map)]
      [] inst.i = "Call" ->
            [inst EXCEPT !.args = [j \in 1..Len(@) |-> replace_value(@[j], copy_map)]]
      [] inst.i = "DomainConversion" -> [inst EXCEPT !.source = replace_value(@, copy_map)]
      [] OTHER -> inst

\* replace_terminator_uses that leaves the terminator as it is.
replace_terminator_uses_kept(term, copy_map) == term

replace_terminator_uses(term, copy_map) ==
    IF term.t = "Return" THEN [term EXCEPT !.value = replace_value(@, copy_map)]
    ELSE term

\* Which Assign values copy_propagation records in copy_map.
is_copy(value) == value.k \in {"Var", "Int", "Float", "Bool"}

\* The first loop of copy_propagation: a later Assign to the same dest overwrites.
RECURSIVE build_copy_map(_, _, _)
build_copy_map(insts, j, copy_map) ==
    IF j > Len(insts) THEN copy_map
    ELSE build_copy_map(insts, j + 1,
             IF insts[j].i = "Assign" /\ is_copy(insts[j].value)
             THEN MapInsert(copy_map, insts[j].dest, insts[j].value)
             ELSE copy_map)

copy_propagation(func) ==
    LET copy_map == build_copy_map(AllInstructions(func.blocks, 1), 1, <<>>)
    IN  [func EXCEPT !.blocks =
            [b \in 1..Len(@) |->
                [@[b] EXCEPT
                    !.instructions = [j \in 1..Len(@) |-> replace_value_uses(@[j], copy_map)],
                    !.terminator = replace_terminator_uses(@, copy_map)]]]

\* A placeholder in the source: it leaves the function unchanged.
inline_single_use_vars(func) == func

\* i64 `/`: the quotient truncated toward zero.
TruncDiv(l, r) ==
    LET al == IF l < 0 THEN -l ELSE l
        ar == IF r < 0 THEN -r ELSE r
        q == al \div ar
    IN  IF (l < 0) = (r < 0) THEN q ELSE -q

RECURSIVE Gcd(_, _)
Gcd(a, b) == IF b = 0 THEN a ELSE Gcd(b, a % b)

\* The float num/den in lowest terms, den > 0.
Rational(num, den) ==
    LET n1 == IF den < 0 THEN -num ELSE num
        d1 == IF den < 0 THEN -den ELSE den
        g == Gcd(IF n1 < 0 THEN -n1 ELSE n1, d1)
    IN  Float(n1 \div g, d1 \div g)

\* The result of a match on op: Some(val), None, or the panic of an arithmetic overflow.
Some(val) == [panic |-> FALSE, val |-> <<val>>]
None == [panic |-> FALSE, val |-> <<>>]
Panic == [panic |-> TRUE, val |-> <<>>]

\* hi * 2^63 + n lies in i64.
InI64(hi, n) == hi = 0 \/ (hi = 1 /\ n < 0) \/ (hi = -1 /\ n >= 0)

\* hi * 2^63 + n modulo 2^64, as an i64.
Wrapped(hi, n) ==
    IF hi % 2 = 0 THEN I64(0, n) ELSE IF n < 0 THEN I64(1, n) ELSE I64(-1, n)

\* `+`, `-`, `*` on i64 with the exact result hi * 2^63 + n: on overflow a build with
\* overflow checks panics and one without wraps.
Arith(hi, n, fits) ==
    IF fits THEN Some(I64(hi, n))
    ELSE IF overflow_checks THEN Panic ELSE Some(Wrapped(hi, n))

\* |l| >= |r| for two values next to the ends of i64.
AtLeastInMagnitude(l, r) == l.hi * l.n >= r.hi * r.n

\* `/` on i64, r # 0: truncation toward zero; i64::MIN / -1 panics in every build.  (A
\* quotient of an end of i64 by a divisor other than 1 and -1 has no form hi * 2^63 + n.)
div_i64(l, r) ==
    CASE l.hi = 0 /\ r.hi = 0 -> Some(IntVal(TruncDiv(l.n, r.n)))
      [] l.hi # 0 /\ r.hi = 0 /\ r.n = 1 -> Some(l)
      [] l.hi # 0 /\ r.hi = 0 /\ r.n = -1 ->
            IF InI64(-l.hi, -l.n) THEN Some(I64(-l.hi, -l.n)) ELSE Panic
      [] l.hi = 0 /\ r.hi # 0 -> Some(IntVal(0))
      [] l.hi # 0 /\ r.hi # 0 ->
            Some(IntVal(IF AtLeastInMagnitude(l, r) THEN l.hi * r.hi ELSE 0))

\* The match on op for two integer literals.
fold_int(op, l, r) ==
    CASE op = "Add" -> Arith(l.hi + r.hi, l.n + r.n, InI64(l.hi + r.hi, l.n + r.n))
      [] op = "Sub" -> Arith(l.hi - r.hi, l.n - r.n, InI64(l.hi - r.hi, l.n - r.n))
      [] op = "Mul" ->
            Arith(l.hi * r.n + r.hi * l.n, l.n * r.n,
                  (l.hi = 0 \/ r.hi = 0) /\ InI64(l.hi * r.n + r.hi * l.n, l.n * r.n))
      [] op = "Div" /\ (r.hi # 0 \/ r.n # 0) -> div_i64(l, r)
      [] OTHER -> None

\* The match on op for two float literals.
fold_float(op, l, r) ==
    CASE op = "Add" -> Some(Rational(l.n * r.d + r.n * l.d, l.d * r.d))
      [] op = "Sub" -> Some(Rational(l.n * r.d - r.n * l.d, l.d * r.d))
      [] op = "Mul" -> Some(Rational(l.n * r.n, l.d * r.d))
      [] op = "Div" /\ r.n # 0 -> Some(Rational(l.n * r.d, l.d * r.n))
      [] OTHER -> None

\* The `if let (Int, Int) ... else if let (Float, Float)` on a BinaryOp.
fold_result(inst) ==
    IF inst.left.k = "Int" /\ inst.right.k = "Int"
    THEN fold_int(inst.op, inst.left, inst.right)
    ELSE IF inst.left.k = "Float" /\ inst.right.k = "Float"
         THEN fold_float(inst.op, inst.left, inst.right)
         ELSE None

\* The body of the loop over the instructions, for an instruction that does not panic.
fold_instruction(inst) ==
    IF inst.i # "BinaryOp" THEN inst
    ELSE IF Len(fold_result(inst).val) = 1
         THEN Assign(inst.dest, fold_result(inst).val[1])
         ELSE inst

\* Folding this instruction panics.
fold_panics(inst) == inst.i = "BinaryOp" /\ fold_result(inst).panic

\* What constant_folding leaves when the process panics in it.
Panicked == [panic |-> "arithmetic overflow"]

constant_folding(func) ==
    IF \E j \in 1..Len(AllInstructions(func.blocks, 1)) :
           fold_panics(AllInstructions(func.blocks, 1)[j])
    THEN Panicked
    ELSE [func EXCEPT !.blocks =
             [b \in 1..Len(@) |->
                 [@[b] EXCEPT !.instructions = [j \in 1..Len(@) |-> fold_instruction(@[j])]]]]

\* The key of expr_map: the Debug text of (op, left, right), which is structural.
\* A key that does not tell the left operand from the right.
expr_key_unordered(inst) == <<inst.op, {inst.left, inst.right}>>

\* A key that leaves the operator out.
expr_key_operands(inst) == <<inst.left, inst.right>>

\* `format!("{:?} {:?} {:?}", op, left, right)`
expr_key(inst) == <<inst.op, inst.left, inst.right>>

\* The scan of common_subexpression_elimination over one instruction list; expr_map
\* is carried from block to block.
RECURSIVE cse_scan(_, _, _, _)
cse_scan(insts, j, expr_map, acc) ==
    IF j > Len(insts) THEN [instructions |-> acc, expr_map |-> expr_map]
    ELSE IF insts[j].i = "BinaryOp"
         THEN IF expr_key(insts[j]) \in DOMAIN expr_map
              THEN cse_scan(insts, j + 1, expr_map,
                            Append(acc, Assign(insts[j].dest,
                                               Var(expr_map[expr_key(insts[j])]))))
              ELSE cse_scan(insts, j + 1,
                            MapInsert(expr_map, expr_key(insts[j]), insts[j].dest),
                            Append(acc, insts[j]))
         ELSE cse_scan(insts, j + 1, expr_map, Append(acc, insts[j]))

RECURSIVE cse_blocks(_, _, _, _)
cse_blocks(blocks, b, expr_map, acc) ==
    IF b > Len(blocks) THEN acc
    ELSE LET r == cse_scan(blocks[b].instructions, 1, expr_map, <<>>)
         IN  cse_blocks(blocks, b + 1, r.expr_map,
                        Append(acc, [blocks[b] EXCEPT !.instructions = r.instructions]))

common_subexpression_elimination(func) ==
    [func EXCEPT !.blocks = cse_blocks(@, 1, <<>>, <<>>)]

\* The first loop of dead_code_elimination: terminators and side-effecting instructions.
seed_used_vars(func) ==
    UNION {IF func.blocks[b].terminator.t = "Return"
           THEN mark_value_used(func.blocks[b].terminator.value)
           ELSE {} : b \in 1..Len(func.blocks)}
    \cup
    UNION {LET inst == AllInstructions(func.blocks, 1)[j]
           IN  CASE inst.i = "Store" ->
                        {inst.array} \cup mark_value_used(inst.index)
                                     \cup mark_value_used(inst.value)
                 [] inst.i = "Call" ->
                        UNION {mark_value_used(inst.args[a]) : a \in 1..Len(inst.args)}
                 [] inst.i = "DomainConversion" -> mark_value_used(inst.source)
                 [] OTHER -> {}
           : j \in 1..Len(AllInstructions(func.blocks, 1))}

\* The `while changed` loop: operands that are a Var, of instructions with a used dest.
RECURSIVE propagate_used(_, _)
propagate_used(insts, used_vars) ==
    LET live == {j \in 1..Len(insts) :
                    Len(get_dest(insts[j])) = 1 /\ get_dest(insts[j])[1] \in used_vars}
        operands == UNION {Range(get_operands(insts[j])) : j \in live}
        more == {o.id : o \in {v \in operands : v.k = "Var"}}
    IN  IF more \subseteq used_vars THEN used_vars
        ELSE propagate_used(insts, used_vars \cup more)

\* The predicate of `retain`.
retained(inst, used_vars) ==
    IF Len(get_dest(inst)) = 1
    THEN get_dest(inst)[1] \in used_vars \/ is_side_effecting(inst)
    ELSE TRUE

RECURSIVE Retain(_, _, _)
Retain(insts, j, used_vars) ==
    IF j > Len(insts) THEN <<>>
    ELSE (IF retained(insts[j], used_vars) THEN <<insts[j]>> ELSE <<>>)
         \o Retain(insts, j + 1, used_vars)

dead_code_elimination(func) ==
    LET used_vars == propagate_used(AllInstructions(func.blocks, 1), seed_used_vars(func))
    IN  [func EXCEPT !.blocks =
            [b \in 1..Len(@) |->
                [@[b] EXCEPT !.instructions = Retain(@, 1, used_vars)]]]

(***************************************************************************)
(* The reference execution of an IR function (spec sections 8 and 9): the  *)
(* instructions of the entry block in order, Assign as last-write-wins,    *)
(* Load/Store on array values, a Call as an observable event whose result  *)
(* is opaque.  Reading a variable that holds nothing yields Undef.         *)
(***************************************************************************)
Undef == [k |-> "Undef"]
CallResult(n) == [k |-> "CallResult", n |-> n]
Opaque(op, l, r) == [k |-> "Opaque", op |-> op, l |-> l, r |-> r]

RECURSIVE EvalValue(_, _)
EvalValue(env, v) ==
    CASE v.k = "Var" -> IF v.id \in DOMAIN env THEN env[v.id] ELSE Undef
      [] v.k = "Array" -> Array([j \in 1..Len(v.elems) |-> EvalValue(env, v.elems[j])])
      [] OTHER -> v

EvalBinary(op, l, r) ==
    IF l.k = "Undef" \/ r.k = "Undef" THEN Undef
    ELSE IF l.k = "Int" /\ r.k = "Int" /\ l.hi = 0 /\ r.hi = 0
    THEN CASE op = "Add" -> IntVal(l.n + r.n)
           [] op = "Sub" -> IntVal(l.n - r.n)
           [] op = "Mul" -> IntVal(l.n * r.n)
           [] op = "Div" /\ r.n # 0 ->
                 IntVal((IF (l.n < 0) = (r.n < 0) THEN 1 ELSE -1)
                        * ((IF l.n < 0 THEN -l.n ELSE l.n) \div (IF r.n < 0 THEN -r.n ELSE r.n)))
           [] op = "Mod" /\ r.n # 0 ->
                 IntVal((IF l.n < 0 THEN -1 ELSE 1)
                        * ((IF l.n < 0 THEN -l.n ELSE l.n) % (IF r.n < 0 THEN -r.n ELSE r.n)))
           [] op = "Eq" -> Bool(l.n = r.n)
           [] op = "Ne" -> Bool(l.n # r.n)
           [] op = "Lt" -> Bool(l.n < r.n)
           [] op = "Le" -> Bool(l.n <= r.n)
           [] op = "Gt" -> Bool(l.n > r.n)
           [] op = "Ge" -> Bool(l.n >= r.n)
           [] OTHER -> Opaque(op, l, r)
    ELSE IF l.k = "Float" /\ r.k = "Float"
    THEN CASE op = "Add" -> Rational(l.n * r.d + r.n * l.d, l.d * r.d)
           [] op = "Sub" -> Rational(l.n * r.d - r.n * l.d, l.d * r.d)
           [] op = "Mul" -> Rational(l.n * r.n, l.d * r.d)
           [] op = "Div" /\ r.n # 0 -> Rational(l.n * r.d, l.d * r.n)
           [] op = "Eq" -> Bool(l.n * r.d = r.n * l.d)
           [] op = "Ne" -> Bool(l.n * r.d # r.n * l.d)
           [] op = "Lt" -> Bool(l.n * r.d < r.n * l.d)
           [] op = "Le" -> Bool(l.n * r.d <= r.n * l.d)
           [] op = "Gt" -> Bool(l.n * r.d > r.n * l.d)
           [] op = "Ge" -> Bool(l.n * r.d >= r.n * l.d)
           [] OTHER -> Opaque(op, l, r)
    ELSE IF l.k = "Bool" /\ r.k = "Bool"
    THEN CASE op = "And" -> Bool(l.b /\ r.b)
           [] op = "Or" -> Bool(l.b \/ r.b)
           [] op = "Eq" -> Bool(l.b = r.b)
           [] op = "Ne" -> Bool(l.b # r.b)
           [] OTHER -> Opaque(op, l, r)
    ELSE Opaque(op, l, r)

EvalUnary(op, o) ==
    CASE o.k = "Undef" -> Undef
      [] op = "Neg" /\ o.k = "Int" /\ o.hi = 0 -> IntVal(-o.n)
      [] op = "Neg" /\ o.k = "Float" -> Float(-o.n, o.d)
      [] op = "Not" /\ o.k = "Bool" -> Bool(~o.b)
      [] OTHER -> Opaque(op, o, o)

InBounds(arr, ix) == arr.k = "Array" /\ ix.k = "Int" /\ ix.hi = 0 /\ ix.n >= 0 /\ ix.n < Len(arr.elems)

\* One instruction: the environment and the observable effects after it.
Step(x, inst) ==
    LET env == x.env
        val(v) == EvalValue(env, v)
    IN  CASE inst.i = "Assign" -> [x EXCEPT !.env = MapInsert(env, inst.dest, val(inst.value))]
          [] inst.i = "BinaryOp" ->
                [x EXCEPT !.env = MapInsert(env, inst.dest,
                                            EvalBinary(inst.op, val(inst.left), val(inst.right)))]
          [] inst.i = "UnaryOp" ->
                [x EXCEPT !.env = MapInsert(env, inst.dest, EvalUnary(inst.op, val(inst.operand)))]
          [] inst.i = "Load" ->
                LET arr == val(Var(inst.array))
                    ix == val(inst.index)
                IN  [x EXCEPT !.env = MapInsert(env, inst.dest,
                                          IF InBounds(arr, ix) THEN arr.elems[ix.n + 1]
                                          ELSE Undef)]
          [] inst.i = "Store" ->
                LET arr == val(Var(inst.array))
                    ix == val(inst.index)
                    ev == [ev |-> "Store", target |-> inst.array, data |-> <<ix, val(inst.value)>>]
                IN  [env |-> IF InBounds(arr, ix)
                             THEN MapInsert(env, inst.array,
                                            Array([arr.elems EXCEPT ![ix.n + 1] = val(inst.value)]))
                             ELSE env,
                     effects |-> Append(x.effects, ev),
                     calls |-> x.calls]
          [] inst.i = "Call" ->
                LET ev == [ev |-> "Call", target |-> inst.function,
                           data |-> [j \in 1..Len(inst.args) |-> val(inst.args[j])]]
                IN  [env |-> IF Len(inst.dest) = 1
                             THEN MapInsert(env, inst.dest[1], CallResult(x.calls + 1))
                             ELSE env,
                     effects |-> Append(x.effects, ev),
                     calls |-> x.calls + 1]
          [] inst.i = "DomainConversion" ->
                [x EXCEPT !.env = MapInsert(env, inst.dest,
                                      Opaque(inst.encoding, val(inst.source), val(inst.source)))]
          [] OTHER -> x

RECURSIVE Run(_, _, _)
Run(x, insts, j) == IF j > Len(insts) THEN x ELSE Run(Step(x, insts[j]), insts, j + 1)

\* The returned value (a one-element sequence, empty for ReturnVoid) and the effects
\* of the function on the arguments args, one per parameter.
Exec(func, args) ==
    LET start == [env |-> [p \in 0..(Len(func.params) - 1) |-> args[p + 1]],
                  effects |-> <<>>, calls |-> 0]
        x == Run(start, func.blocks[1].instructions, 1)
        term == func.blocks[1].terminator
    IN  [ret |-> IF term.t = "Return" THEN <<EvalValue(x.env, term.value)>> ELSE <<>>,
         effects |-> x.effects]

\* The variables an instruction reads: operands and the array base of a Load or Store.
ReadsOf(inst) ==
    UNION {mark_value_used(get_operands(inst)[j]) : j \in 1..Len(get_operands(inst))}
    \cup (IF inst.i \in {"Load", "Store"} THEN {inst.array} ELSE {})

\* The destination of an instruction of any kind, as a set.
DestOf(inst) == IF inst.i = "Store" THEN {} ELSE Range(IF inst.i = "Call" THEN inst.dest ELSE <<inst.dest>>)

\* Every variable read by an instruction or the terminator is a parameter or the
\* destination of an earlier instruction of the entry block.
DefinedBeforeUse(func) ==
    LET insts == func.blocks[1].instructions
        term == func.blocks[1].terminator
        defined(j) == 0..(Len(func.params) - 1) \cup UNION {DestOf(insts[n]) : n \in 1..(j - 1)}
    IN  /\ \A j \in 1..Len(insts) : ReadsOf(insts[j]) \subseteq defined(j)
        /\ term.t = "Return" => mark_value_used(term.value) \subseteq defined(Len(insts) + 1)

(***************************************************************************)
(* The bounded families of programs the compiler is run on.                *)
(***************************************************************************)
a == Variable("a")
b == Variable("b")
IntParams == <<Param("a", TInt), Param("b", TInt), Param("arr", TArray(TInt, <<2>>))>>

\* Straight-line bodies, with re-assignment, arrays, a call and conditionals.
StatementPool ==
    {Let("x", a), Let("x", IntLiteral(1)), Let("x", Binary("Add", a, b)),
     Let("y", Binary("Add", a, b)),
     AssignStmt("x", Binary("Add", Variable("x"), IntLiteral(1))),
     AssignIndexed("arr", IntLiteral(0), Variable("x")),
     Let("y", Index(Variable("arr"), IntLiteral(0))),
     Let("t", ArrayLiteral(<<a, IntLiteral(1)>>)),
     Let("y", Index(Variable("t"), IntLiteral(1))),
     ExprStmt(CallExpr("print", <<Variable("x")>>)),
     ReturnStmt(Variable("x")), ReturnStmt(Variable("y")),
     IfElseStmt(Binary("Lt", a, b), <<AssignStmt("x", IntLiteral(2))>>, <<ReturnStmt(a)>>),
     IfStmt(Binary("Lt", a, b), <<ReturnStmt(b)>>)}

SequencePrograms ==
    {<<Function("f", IntParams, TInt, body, "Classical")>> :
        body \in SeqsUpTo(StatementPool, MaxBody) \ {<<>>}}

\* `let x = l op r; return x;` on integer and on float literals.
FoldPrograms ==
    {<<Function("main", <<>>, TInt,
                <<Let("x", Binary(op, IntLiteral(l), IntLiteral(r))), ReturnStmt(Variable("x"))>>,
                "Classical")>> : op \in BinOps, l \in 0..MaxInt, r \in 0..MaxInt}
    \cup
    {<<Function("main", <<>>, TFloat,
                <<Let("x", Binary(op, FloatLiteral(l, 2), FloatLiteral(r, 1))),
                  ReturnStmt(Variable("x"))>>,
                "Classical")>> : op \in BinOps, l \in {1, 3}, r \in 0..MaxInt}

\* An accumulator, a for loop over lo..hi, and a return.
LoopBodies ==
    {<<AssignStmt("s", Binary("Add", Variable("s"), Variable("i")))>>,
     <<Let("t", Binary("Mul", Variable("i"), IntLiteral(2))),
       AssignStmt("s", Binary("Add", Variable("s"), Variable("t")))>>,
     <<ReturnStmt(Variable("i"))>>,
     <<AssignIndexed("arr", Variable("i"), Variable("s"))>>,
     <<ExprStmt(CallExpr("print", <<Variable("i")>>))>>}

LoopPrograms ==
    {<<Function("f", IntParams, TInt,
                <<Let("s", IntLiteral(0)), ForStmt("i", lo, IntLiteral(hi), body),
                  ReturnStmt(Variable("s"))>>,
                "Classical")>> :
        lo \in {IntLiteral(n) : n \in 0..MaxIter} \cup {a}, hi \in 0..MaxIter,
        body \in LoopBodies}

\* A caller and a callee of every pair of domains; the callee may bear a reserved name.
ArgPool == {IntLiteral(1), a, Binary("Add", a, IntLiteral(1))}
CalleeNames == {"g", "h", "print", "measure"}

Callee(name, k, domain) ==
    Function(name, [j \in 1..k |-> Param("p", TInt)], TInt,
             <<ReturnStmt(IntLiteral(0))>>, domain)

Caller(body, domain) == Function("main", <<Param("a", TInt)>>, TInt, body, domain)

CallPrograms ==
    {<<Callee(name, Len(args), d2),
       Caller(<<Let("r", CallExpr(name, args)), ReturnStmt(Variable("r"))>>, d1)>> :
        name \in CalleeNames, args \in SeqsUpTo(ArgPool, MaxArgs), d1 \in Domain, d2 \in Domain}
    \cup
    {<<Caller(<<ExprStmt(CallExpr("g", <<CallExpr("g", <<a>>)>>)),
                Let("m", MapExpr("g", ArrayLiteral(<<a, IntLiteral(1)>>))),
                ReturnStmt(IntLiteral(0))>>, d1),
       Callee("g", 1, d2)>> : d1 \in Domain, d2 \in Domain}
    \cup
    {<<Caller(<<ExprStmt(CallExpr(name, <<IntLiteral(0)>>)), ReturnStmt(IntLiteral(0))>>, d1)>> :
        name \in {"h", "print", "measure", "x"}, d1 \in Domain}

\* Arithmetic at the ends of i64: the largest literal as an operand, and i64::MIN (built
\* as 0 - 9223372036854775807 - 1) divided by -1 (built as 0 - 1).
OverflowPrograms ==
    {<<Function("main", <<>>, TInt,
                <<Let("x", Binary(op, IntLiteralMax, IntLiteral(r))), ReturnStmt(Variable("x"))>>,
                "Classical")>> : op \in BinOps, r \in 0..1}
    \cup
    {<<Function("main", <<>>, TInt,
                <<Let("m", Binary("Sub", IntLiteral(0), IntLiteralMax)),
                  Let("n", Binary("Sub", Variable("m"), IntLiteral(1))),
                  Let("c", Binary("Sub", IntLiteral(0), IntLiteral(1))),
                  Let("d", Binary("Div", Variable("n"), Variable("c"))),
                  ReturnStmt(Variable("d"))>>,
                "Classical")>>}

\* Calls the checker rejects: a wrong number of arguments, a wrong argument type.
BadCallPrograms ==
    {<<Callee("g", 1, d2),
       Caller(<<Let("r", CallExpr("g", args)), ReturnStmt(Variable("r"))>>, d1)>> :
        args \in {<<>>, <<a, a>>, <<BoolLiteral(TRUE)>>, <<CallExpr("g", <<a, a>>)>>},
        d1 \in Domain, d2 \in Domain}

\* Two computations over the operands a, b and 1, and the sum of their results.
CseOperands == {a, b, IntLiteral(1)}

CsePrograms ==
    {<<Function("f", IntParams, TInt,
                <<Let("x", Binary(op1, l1, r1)), Let("y", Binary(op2, l2, r2)),
                  ReturnStmt(ret)>>,
                "Classical")>> :
        op1 \in {"Add", "Mul"}, op2 \in {"Add"}, l1 \in CseOperands, r1 \in CseOperands,
        l2 \in CseOperands, r2 \in CseOperands,
        ret \in {Binary("Add", Variable("x"), Variable("y")), Variable("x"), a}}

\* The types of ast.rs up to two levels of Array and Tensor.
BaseTypes == {TInt, TFloat, TBool, TQubit, TVoid, TQState}
Sizes == {<<>>} \cup {<<n>> : n \in 1..MaxSize}
Compound(S) == {TArray(t, size) : t \in S, size \in Sizes} \cup {TTensor(t) : t \in S}
Types1 == BaseTypes \cup Compound(BaseTypes)
Types == Types1 \cup Compound(Compound(BaseTypes))

\* `let u: expected = t;` on a parameter t of type actual.
TypePrograms ==
    {<<Function("f", <<Param("t", actual)>>, TInt,
                <<LetTyped("u", expected, Variable("t")), ReturnStmt(IntLiteral(0))>>,
                "Classical")>> : expected \in Types, actual \in Types}

\* `t[ix] = e;` and `let y = t[ix];` on parameters t and e.
IndexPool == {IntLiteral(0), BoolLiteral(TRUE), FloatLiteral(1, 2)}

IndexPrograms ==
    {<<Function("f", <<Param("t", T), Param("e", E)>>, TInt,
                <<AssignIndexed("t", ix, Variable("e")), ReturnStmt(IntLiteral(0))>>,
                "Classical")>> : T \in Types1, E \in BaseTypes, ix \in IndexPool}
    \cup
    {<<Function("f", <<Param("t", T)>>, TInt,
                <<Let("y", Index(Variable("t"), ix)), ReturnStmt(IntLiteral(0))>>,
                "Classical")>> : T \in Types1, ix \in IndexPool}

\* Names bound by a loop or inside a branch and read after it; an indexed array literal.
ScopePrograms ==
    {<<Function("f", <<Param("a", TInt)>>, TInt,
                <<ForStmt("i", lo, IntLiteral(hi), <<Let("t", Variable("i"))>>),
                  ReturnStmt(ret)>>,
                "Classical")>> :
        lo \in {IntLiteral(n) : n \in 0..MaxIter} \cup {a}, hi \in 0..MaxIter,
        ret \in {Variable("i"), Variable("t"), a}}
    \cup
    {<<Function("f", <<Param("a", TInt)>>, TInt,
                <<IfStmt(Binary("Lt", a, IntLiteral(1)), <<Let("t", IntLiteral(1))>>),
                  ReturnStmt(Variable("t"))>>,
                "Classical")>>,
     <<Function("f", <<Param("a", TInt)>>, TInt,
                <<Let("y", Index(ArrayLiteral(<<a, IntLiteral(1)>>), IntLiteral(0))),
                  ReturnStmt(Variable("y"))>>,
                "Classical")>>}

\* Quantum functions whose body is a sequence of calls of the gates: the built-ins of the
\* checker on literal qubits, a measure as a statement and as the value of a let, a plain
\* let and a gate on its variable.
GateCall(function, args) == ExprStmt(CallExpr(function, args))

GatePool ==
    {GateCall("h", <<IntLiteral(q)>>) : q \in 0..MaxInt}
    \cup {GateCall("x", <<IntLiteral(0)>>), GateCall("y", <<IntLiteral(0)>>),
          GateCall("z", <<IntLiteral(1)>>), GateCall("h", <<IntLiteralMax>>)}
    \cup {GateCall("cx", <<IntLiteral(0), IntLiteral(1)>>),
          GateCall("cnot", <<IntLiteral(1), IntLiteral(0)>>),
          GateCall("cx", <<IntLiteral(0), IntLiteral(MaxInt)>>)}
    \cup {GateCall("ry", <<IntLiteral(0), FloatLiteral(1, 2)>>),
          GateCall("rz", <<IntLiteral(1), FloatLiteral(1, 2)>>)}
    \cup {GateCall("measure", <<IntLiteral(0)>>),
          Let("m", CallExpr("measure", <<IntLiteral(1)>>)),
          Let("k", IntLiteral(1)),
          GateCall("h", <<Variable("k")>>)}

GatePrograms ==
    {<<Function(name, <<>>, TInt, gates \o <<ReturnStmt(IntLiteral(0))>>, "Quantum")>> :
        name \in {"bell", "main"}, gates \in SeqsUpTo(GatePool, MaxGates)}

\* `let x1 = start; let x2 = x1; ... let xn = x(n-1); return xn;`: a chain of n copies.
ChainName(j) == "x" \o ToString(j)

ChainPrograms ==
    {<<Function("f", <<Param("a", TInt)>>, TInt,
                [j \in 1..n |-> Let(ChainName(j),
                                    IF j = 1 THEN start ELSE Variable(ChainName(j - 1)))]
                \o <<ReturnStmt(Variable(ChainName(n)))>>,
                "Classical")>> : n \in 1..MaxChain, start \in {a, IntLiteral(1)}}

\* `let x = start; let y = x op1 b; let z = a op2 b; return ret;`: two operations that are
\* the same expression once the copy x is replaced by its value.
CopyCsePrograms ==
    {<<Function("f", <<Param("a", TInt), Param("b", TInt)>>, TInt,
                <<Let("x", start), Let("y", Binary(op1, Variable("x"), b)),
                  Let("z", Binary(op2, a, b)), ReturnStmt(ret)>>,
                "Classical")>> :
        start \in {a, b, IntLiteral(1)}, op1 \in {"Add", "Sub"}, op2 \in {"Add", "Sub"},
        ret \in {Variable("y"), Variable("z"),
                 Binary("Add", Variable("y"), Variable("z"))}}

\* The families; a program of the model is a member of one of them.
\* `let x = a[i]; a[j] = v; return r;`: an element read, a store to the array, and the
\* value read returned.
StorePrograms ==
    {<<Function("f", <<Param("a", TArray(TInt, <<2>>)), Param("b", TInt)>>, TInt,
                <<Let("x", Index(a, IntLiteral(i))),
                  AssignIndexed("a", IntLiteral(j), v),
                  ReturnStmt(r)>>,
                "Classical")>> :
        i \in 0..1, j \in 0..1, v \in {IntLiteral(5), b},
        r \in {Variable("x"), Binary("Add", Variable("x"), b)}}

Programs ==
    <<SequencePrograms, FoldPrograms, LoopPrograms, CallPrograms,
      OverflowPrograms, BadCallPrograms, CsePrograms, TypePrograms,
      IndexPrograms, ScopePrograms, GatePrograms, ChainPrograms,
      CopyCsePrograms, StorePrograms>>

(***************************************************************************)
(* Text.  A backend's output is the sequence of its lines (the text split  *)
(* at "\n"); the formatting of the values is Rust's Display and Debug.     *)
(***************************************************************************)
RECURSIVE Join(_, _)
\* `.join(sep)`
Join(texts, sep) ==
    IF Len(texts) = 0 THEN ""
    ELSE IF Len(texts) = 1 THEN texts[1]
         ELSE texts[1] \o sep \o Join(Tail(texts), sep)

\* `{}` of the i64 (or usize) hi * 2^63 + n: 2^63 = 9223372036854775808.
display_i64(v) ==
    CASE v.hi = 0 -> ToString(v.n)
      [] v.hi = 1 -> "922337203685" \o ToString(4775808 + v.n)
      [] OTHER -> "-922337203685" \o ToString(4775808 - v.n)

\* The decimal expansion of num / den has finitely many digits.
RECURSIVE Terminates(_)
Terminates(den) ==
    IF den % 2 = 0 THEN Terminates(den \div 2)
    ELSE IF den % 5 = 0 THEN Terminates(den \div 5)
         ELSE den = 1

\* The digits after the point of rem / den, rem < den, by long division.
RECURSIVE FracDigits(_, _)
FracDigits(rem, den) ==
    IF rem = 0 THEN ""
    ELSE ToString((rem * 10) \div den) \o FracDigits((rem * 10) % den, den)

\* The shortest decimal text that reads back as the f64 n / d: the exact expansion when
\* it is finite (and short).  The digits of a quotient with no finite expansion are not
\* computed; its text is written as the quotient.
f64_text(v, whole) ==
    LET m == IF v.n < 0 THEN -v.n ELSE v.n
        sign == IF v.n < 0 THEN "-" ELSE ""
    IN  IF ~Terminates(v.d) THEN sign \o ToString(m) \o "/" \o ToString(v.d)
        ELSE IF m % v.d = 0 THEN sign \o ToString(m \div v.d) \o whole
             ELSE sign \o ToString(m \div v.d) \o "." \o FracDigits(m % v.d, v.d)

\* `{}` of an f64: 1.0 is "1".
display_f64(v) == f64_text(v, "")

\* `{:?}` of an f64: 1.0 is "1.0".
debug_f64(v) == f64_text(v, ".0")

\* `{:?}` of an SSAVar.
debug_ssa_var(id) == "SSAVar { id: " \o ToString(id) \o " }"

RECURSIVE debug_value(_)
RECURSIVE debug_values(_, _)
\* `{:?}` of a Value.
debug_value(val) ==
    CASE val.k = "Var" -> "Var(" \o debug_ssa_var(val.id) \o ")"
      [] val.k = "Int" -> "Int(" \o display_i64(val) \o ")"
      [] val.k = "Float" -> "Float(" \o debug_f64(val) \o ")"
      [] val.k = "Bool" -> "Bool(" \o (IF val.b THEN "true" ELSE "false") \o ")"
      [] val.k = "Array" -> "Array([" \o Join(debug_values(val.elems, 1), ", ") \o "])"

debug_values(vals, j) ==
    IF j > Len(vals) THEN <<>>
    ELSE <<debug_value(vals[j])>> \o debug_values(vals, j + 1)

\* `{:?}` of an Instruction that is not a DomainConversion.
debug_instruction(inst) ==
    CASE inst.i = "Assign" ->
            "Assign { dest: " \o debug_ssa_var(inst.dest) \o ", value: "
            \o debug_value(inst.value) \o " }"
      [] inst.i = "BinaryOp" ->
            "BinaryOp { dest: " \o debug_ssa_var(inst.dest) \o ", op: " \o inst.op
            \o ", left: " \o debug_value(inst.left) \o ", right: "
            \o debug_value(inst.right) \o " }"
      [] inst.i = "UnaryOp" ->
            "UnaryOp { dest: " \o debug_ssa_var(inst.dest) \o ", op: " \o inst.op
            \o ", operand: " \o debug_value(inst.operand) \o " }"
      [] inst.i = "Load" ->
            "Load { dest: " \o debug_ssa_var(inst.dest) \o ", array: "
            \o debug_ssa_var(inst.array) \o ", index: " \o debug_value(inst.index) \o " }"
      [] inst.i = "Store" ->
            "Store { array: " \o debug_ssa_var(inst.array) \o ", index: "
            \o debug_value(inst.index) \o ", value: " \o debug_value(inst.value) \o " }"
      [] inst.i = "Call" ->
            "Call { dest: "
            \o (IF Len(inst.dest) = 1 THEN "Some(" \o debug_ssa_var(inst.dest[1]) \o ")"
                ELSE "None")
            \o ", function: \"" \o inst.function \o "\", args: ["
            \o Join(debug_values(inst.args, 1), ", ") \o "] }"

(***************************************************************************)
(* backend/quantum.rs: the Qiskit script of one function of the module.    *)
(***************************************************************************)
\* codegen_value
codegen_value(val) ==
    CASE val.k = "Int" -> display_i64(val)
      [] val.k = "Float" -> display_f64(val)
      [] val.k = "Bool" -> IF val.b THEN "true" ELSE "false"
      [] val.k = "Var" -> "v" \o ToString(val.id)
      [] val.k = "Array" -> "[]"

\* `if let Some(Value::Int(_)) = args.get(j - 1)`
IsIntArg(args, j) == j <= Len(args) /\ args[j].k = "Int"

\* The gate builder a function name of the table stands for.
gate_of(function) ==
    CASE function \in {"h", "hadamard"} -> "h"
      [] function \in {"x", "pauli_x"} -> "x"
      [] function \in {"y", "pauli_y"} -> "y"
      [] function \in {"z", "pauli_z"} -> "z"
      [] function \in {"cx", "cnot"} -> "cx"
      [] OTHER -> function

\* `format!("{}", qubit)`: the qubit operand is written as the bare integer.
qubit_operand(qubit) == display_i64(qubit)

\* try_codegen_quantum_instruction: the line of the operation (Some), or none.
try_codegen_quantum_instruction(inst) ==
    CASE inst.i = "DomainConversion" ->
           (CASE inst.encoding = "AngleEncoding" ->
                    <<"# Angle encoding: " \o ToString(inst.dest) \o " = encode_angle("
                      \o codegen_value(inst.source) \o ")">>
              [] inst.encoding = "AmplitudeEncoding" ->
                    <<"# Amplitude encoding: " \o ToString(inst.dest)
                      \o " = encode_amplitude(" \o codegen_value(inst.source) \o ")">>
              [] inst.encoding = "MeasurementExtract" ->
                    <<"# Measurement extract: " \o ToString(inst.dest) \o " = extract("
                      \o codegen_value(inst.source) \o ")">>)
      [] inst.i = "Call" ->
           (CASE gate_of(inst.function) \in {"h", "x", "y", "z"} /\ IsIntArg(inst.args, 1) ->
                    <<"circuit." \o gate_of(inst.function) \o "("
                      \o qubit_operand(inst.args[1]) \o ")">>
              [] gate_of(inst.function) \in {"cx", "cz"}
                 /\ IsIntArg(inst.args, 1) /\ IsIntArg(inst.args, 2) ->
                    <<"circuit." \o gate_of(inst.function) \o "("
                      \o qubit_operand(inst.args[1]) \o ", "
                      \o qubit_operand(inst.args[2]) \o ")">>
              [] inst.function \in {"rx", "ry", "rz"} /\ IsIntArg(inst.args, 2) ->
                    <<"circuit." \o inst.function \o "(" \o codegen_value(inst.args[1])
                      \o ", " \o qubit_operand(inst.args[2]) \o ")">>
              [] OTHER -> <<>>)
      [] OTHER -> <<>>

\* The integer literals passed to the calls of the function that are not negative.
QubitLiterals(func) ==
    UNION {{arg \in Range(inst.args) : arg.k = "Int" /\ ~I64Less(arg, IntVal(0))} :
           inst \in {i \in Range(AllInstructions(func.blocks, 1)) : i.i = "Call"}}

\* `max_qubit` after the loops (a usize, written as an i64 is).
max_qubit_of(func) ==
    IF QubitLiterals(func) = {} THEN IntVal(0)
    ELSE CHOOSE m \in QubitLiterals(func) : \A o \in QubitLiterals(func) : ~I64Less(m, o)

\* estimate_qubits: (max_qubit + 1).max(2)
estimate_qubits(func) ==
    IF max_qubit_of(func).hi = 0 /\ max_qubit_of(func).n + 1 < 2 THEN IntVal(2)
    ELSE I64(max_qubit_of(func).hi, max_qubit_of(func).n + 1)

\* The loop over the instructions of a block: the operation, or the comment.
RECURSIVE codegen_instructions(_, _)
codegen_instructions(insts, j) ==
    IF j > Len(insts) THEN <<>>
    ELSE (IF try_codegen_quantum_instruction(insts[j]) # <<>>
          THEN try_codegen_quantum_instruction(insts[j])
          ELSE <<"# Classical: " \o debug_instruction(insts[j])>>)
         \o codegen_instructions(insts, j + 1)

RECURSIVE codegen_blocks(_, _)
codegen_blocks(blocks, k) ==
    IF k > Len(blocks) THEN <<>>
    ELSE <<"# Block: " \o blocks[k].label>>
         \o codegen_instructions(blocks[k].instructions, 1)
         \o codegen_blocks(blocks, k + 1)

\* codegen_quantum_circuit
codegen_quantum_circuit(func) ==
    <<"# Function: " \o func.name,
      "qr = QuantumRegister(" \o display_i64(estimate_qubits(func)) \o ", 'q')",
      "cr = ClassicalRegister(" \o display_i64(estimate_qubits(func)) \o ", 'c')",
      "circuit = QuantumCircuit(qr, cr)",
      "">>
    \o codegen_blocks(func.blocks, 1)
    \o <<"", "# Measurements", "circuit.measure(qr, cr)">>

\* The lines before the circuit (the literal of the key is left out).
quantum_imports ==
    <<"# Generated Qiskit code",
      "from qiskit import QuantumCircuit, QuantumRegister, ClassicalRegister",
      "from qiskit_ibm_runtime import QiskitRuntimeService, SamplerV2 as Sampler",
      "from qiskit_aer import AerSimulator",
      "import sys",
      "",
      "# ============================================================================",
      "# Configuration",
      "# ============================================================================",
      "",
      "USE_QUANTUM_COMPUTER = False  # Set to True to use IBM Quantum hardware",
      "IBM_API_KEY = \"...\"  # IBM Quantum API key",
      "">>

\* The lines after the circuit.
quantum_execution ==
    <<"",
      "# ============================================================================",
      "# Execution",
      "# ============================================================================",
      "",
      "if __name__ == '__main__':",
      "    if USE_QUANTUM_COMPUTER:",
      "        # Use IBM Quantum hardware",
      "        print(\"Connecting to IBM Quantum...\")",
      "        service = QiskitRuntimeService(channel=\"ibm_quantum\", token=IBM_API_KEY)",
      "        backend = service.least_busy(operational=True, simulator=False)",
      "        print(f\"Using IBM Quantum backend: {backend.name}\")",
      "        ",
      "        sampler = Sampler(backend)",
      "        job = sampler.run([circuit], shots=1024)",
      "        print(f\"Job ID: {job.job_id()}\")",
      "        print(\"Waiting for results...\")",
      "        result = job.result()",
      "        ",
      "        # Extract counts from SamplerV2 result",
      "        pub_result = result[0]",
      "        counts = pub_result.data.meas.get_counts()",
      "        print(f\"Counts: {counts}\")",
      "    else:",
      "        # Use local simulator",
      "        print(\"Using local Qiskit Aer simulator\")",
      "        backend = AerSimulator()",
      "        result = backend.run(circuit, shots=1024).result()",
      "        counts = result.get_counts()",
      "        print(f\"Counts: {counts}\")">>

\* The function the circuit is generated from: the one named "main", else the first.
circuit_function(functions) ==
    IF \E f \in 1..Len(functions) : functions[f].name = "main"
    THEN <<functions[CHOOSE f \in 1..Len(functions) :
                        /\ functions[f].name = "main"
                        /\ \A g \in 1..(f - 1) : functions[g].name # "main"]>>
    ELSE IF Len(functions) > 0 THEN <<functions[1]>> ELSE <<>>

\* quantum.rs codegen
codegen(functions) ==
    quantum_imports
    \o (IF circuit_function(functions) = <<>> THEN <<>>
        ELSE codegen_quantum_circuit(circuit_function(functions)[1]))
    \o quantum_execution

(***************************************************************************)
(* backend/orchestrator.rs: the Python script of the module.  var_names    *)
(* maps the ids of the parameters to their names, in every body generator. *)
(***************************************************************************)
\* var_name over the var_names of func (and var_name_from_id)
var_name(id, func) ==
    IF id < Len(func.params) THEN func.params[id + 1].name ELSE "v" \o ToString(id)

\* The map on op shared by the instruction printer and build_inline_map.
op_str(op) ==
    CASE op = "Add" -> "+"
      [] op = "Sub" -> "-"
      [] op = "Mul" -> "*"
      [] op = "Div" -> "/"
      [] op = "Mod" -> "%"
      [] op = "Eq" -> "=="
      [] op = "Ne" -> "!="
      [] op = "Lt" -> "<"
      [] op = "Le" -> "<="
      [] op = "Gt" -> ">"
      [] op = "Ge" -> ">="
      [] op = "And" -> "and"
      [] op = "Or" -> "or"

\* get_dest_var: an Option, as a sequence.
get_dest_var(inst) ==
    CASE inst.i \in {"Assign", "BinaryOp", "UnaryOp", "Load", "DomainConversion"} -> <<inst.dest>>
      [] inst.i = "Call" -> inst.dest
      [] OTHER -> <<>>

\* The values build_inline_map passes to count_value_uses for an instruction.
counted_values(inst) ==
    CASE inst.i = "Assign" -> <<inst.value>>
      [] inst.i = "BinaryOp" -> <<inst.left, inst.right>>
      [] inst.i = "UnaryOp" -> <<inst.operand>>
      [] inst.i = "Load" -> <<inst.index>>
      [] inst.i = "Store" -> <<inst.index, inst.value>>
      [] inst.i = "Call" -> inst.args
      [] inst.i = "DomainConversion" -> <<inst.source>>

RECURSIVE counted_in(_, _)
counted_in(insts, j) ==
    IF j > Len(insts) THEN <<>>
    ELSE counted_values(insts[j]) \o counted_in(insts, j + 1)

RECURSIVE counted_in_blocks(_, _)
counted_in_blocks(blocks, k) ==
    IF k > Len(blocks) THEN <<>>
    ELSE counted_in(blocks[k].instructions, 1)
         \o (IF blocks[k].terminator.t = "Return" THEN <<blocks[k].terminator.value>>
             ELSE <<>>)
         \o counted_in_blocks(blocks, k + 1)

\* use_count.get(&id).copied().unwrap_or(0): count_value_uses counts a Value::Var only.
use_count(func, id) ==
    Len(SelectSeq(counted_in_blocks(func.blocks, 1),
                  LAMBDA val : val.k = "Var" /\ val.id = id))

\* The variables used as the array of a Load or a Store.
no_inline_vars(func) ==
    {inst.array : inst \in {i \in Range(AllInstructions(func.blocks, 1)) :
                               i.i \in {"Load", "Store"}}}

RECURSIVE value_to_inline_string(_, _, _)
RECURSIVE values_to_inline_strings(_, _, _, _)
\* value_to_inline_string
value_to_inline_string(value, func, inline_map) ==
    CASE value.k = "Var" ->
            IF value.id \in DOMAIN inline_map THEN inline_map[value.id]
            ELSE var_name(value.id, func)
      [] value.k = "Int" -> display_i64(value)
      [] value.k = "Float" -> display_f64(value)
      [] value.k = "Bool" -> IF value.b THEN "true" ELSE "false"
      [] value.k = "Array" ->
            "[" \o Join(values_to_inline_strings(value.elems, func, inline_map, 1), ", ")
            \o "]"

values_to_inline_strings(vals, func, inline_map, j) ==
    IF j > Len(vals) THEN <<>>
    ELSE <<value_to_inline_string(vals[j], func, inline_map)>>
         \o values_to_inline_strings(vals, func, inline_map, j + 1)

\* The tests of both passes: the dest is no parameter, no array, and is used once.
may_inline(func, inst) ==
    /\ get_dest_var(inst) # <<>>
    /\ get_dest_var(inst)[1] >= Len(func.params)
    /\ get_dest_var(inst)[1] \notin no_inline_vars(func)
    /\ use_count(func, get_dest_var(inst)[1]) = 1

\* Pass 1 of build_inline_map: the Loads and the Assigns.
RECURSIVE inline_pass1(_, _, _, _)
inline_pass1(func, insts, j, inline_map) ==
    IF j > Len(insts) THEN inline_map
    ELSE inline_pass1(func, insts, j + 1,
             IF may_inline(func, insts[j]) /\ insts[j].i = "Load"
             THEN MapInsert(inline_map, insts[j].dest,
                            var_name(insts[j].array, func) \o "["
                            \o value_to_inline_string(insts[j].index, func, inline_map)
                            \o "]")
             ELSE IF may_inline(func, insts[j]) /\ insts[j].i = "Assign"
                  THEN MapInsert(inline_map, insts[j].dest,
                                 value_to_inline_string(insts[j].value, func, inline_map))
                  ELSE inline_map)

\* Pass 2 of build_inline_map: the BinaryOps, over the map of pass 1.
RECURSIVE inline_pass2(_, _, _, _)
inline_pass2(func, insts, j, inline_map) ==
    IF j > Len(insts) THEN inline_map
    ELSE inline_pass2(func, insts, j + 1,
             IF /\ may_inline(func, insts[j])
                /\ get_dest_var(insts[j])[1] \notin DOMAIN inline_map
                /\ insts[j].i = "BinaryOp"
             THEN MapInsert(inline_map, insts[j].dest,
                            value_to_inline_string(insts[j].left, func, inline_map)
                            \o " " \o op_str(insts[j].op) \o " "
                            \o value_to_inline_string(insts[j].right, func, inline_map))
             ELSE inline_map)

\* build_inline_map
build_inline_map(func) ==
    inline_pass2(func, AllInstructions(func.blocks, 1), 1,
                 inline_pass1(func, AllInstructions(func.blocks, 1), 1, <<>>))

RECURSIVE python_value_with_inline(_, _, _)
RECURSIVE python_values_with_inline(_, _, _, _)
\* python_value_with_inline
python_value_with_inline(val, func, inline_map) ==
    CASE val.k = "Int" -> display_i64(val)
      [] val.k = "Float" -> display_f64(val)
      [] val.k = "Bool" -> IF val.b THEN "True" ELSE "False"
      [] val.k = "Var" ->
            IF val.id \in DOMAIN inline_map THEN inline_map[val.id]
            ELSE var_name(val.id, func)
      [] val.k = "Array" ->
            "[" \o Join(python_values_with_inline(val.elems, func, inline_map, 1), ", ")
            \o "]"

python_values_with_inline(vals, func, inline_map, j) ==
    IF j > Len(vals) THEN <<>>
    ELSE <<python_value_with_inline(vals[j], func, inline_map)>>
         \o python_values_with_inline(vals, func, inline_map, j + 1)

\* The helper a conversion names when it follows the encoding (the match of
\* generate_python_instruction_with_names, which no body generator calls).
conversion_helper_by_encoding(encoding) ==
    CASE encoding = "AngleEncoding" -> "encode_angle"
      [] encoding = "AmplitudeEncoding" -> "encode_amplitude"
      [] encoding = "MeasurementExtract" -> "extract_measurement"

\* The helper the DomainConversion arm of generate_python_instruction_with_inline names:
\* `format!("    {} = encode_angle({})\n", ...)`, whatever the encoding.
conversion_helper(encoding) == "encode_angle"

\* The Call arm of generate_python_instruction_with_inline.
python_call(inst, func, inline_map) ==
    LET args_str == Join(python_values_with_inline(inst.args, func, inline_map, 1), ", ")
    IN  IF inst.function \in {"print", "print_float", "print_array"}
        THEN <<"    print(" \o args_str \o ")">>
        ELSE IF inst.dest # <<>>
             THEN <<"    " \o var_name(inst.dest[1], func) \o " = " \o inst.function
                    \o "(" \o args_str \o ")",
                    "    if DEBUG_MODE:",
                    "        print(f\"  " \o inst.function \o "(" \o args_str \o ") = {"
                    \o var_name(inst.dest[1], func) \o "}\")">>
             ELSE <<"    " \o inst.function \o "(" \o args_str \o ")",
                    "    if DEBUG_MODE:",
                    "        print(f\"  " \o inst.function \o "(" \o args_str \o ")\")">>

\* generate_python_instruction_with_inline: the lines of one instruction.
generate_python_instruction_with_inline(inst, func, inline_map) ==
    CASE inst.i = "Assign" ->
            <<"    " \o var_name(inst.dest, func) \o " = "
              \o python_value_with_inline(inst.value, func, inline_map)>>
      [] inst.i = "BinaryOp" ->
            <<"    " \o var_name(inst.dest, func) \o " = "
              \o python_value_with_inline(inst.left, func, inline_map)
              \o " " \o op_str(inst.op) \o " "
              \o python_value_with_inline(inst.right, func, inline_map)>>
      [] inst.i = "UnaryOp" ->
            <<"    " \o var_name(inst.dest, func) \o " = "
              \o (IF inst.op = "Neg" THEN "-" ELSE "not ")
              \o python_value_with_inline(inst.operand, func, inline_map)>>
      [] inst.i = "Load" ->
            <<"    " \o var_name(inst.dest, func) \o " = " \o var_name(inst.array, func)
              \o "[" \o python_value_with_inline(inst.index, func, inline_map) \o "]">>
      [] inst.i = "Store" ->
            <<"    " \o var_name(inst.array, func)
              \o "[" \o python_value_with_inline(inst.index, func, inline_map) \o "] = "
              \o python_value_with_inline(inst.value, func, inline_map)>>
      [] inst.i = "Call" -> python_call(inst, func, inline_map)
      [] inst.i = "DomainConversion" ->
            <<"    " \o var_name(inst.dest, func) \o " = "
              \o conversion_helper(inst.encoding) \o "("
              \o python_value_with_inline(inst.source, func, inline_map) \o ")">>

\* generate_python_terminator_with_inline
generate_python_terminator_with_inline(term, func, inline_map) ==
    IF term.t = "Return"
    THEN <<"    return " \o python_value_with_inline(term.value, func, inline_map)>>
    ELSE <<"    return None">>

\* `if let Some(dest) = get_dest_var(inst) { if inline_map.contains_key(&dest.id) .. }`
is_inlined(inst, inline_map) ==
    get_dest_var(inst) # <<>> /\ get_dest_var(inst)[1] \in DOMAIN inline_map

\* The loop over the instructions of a block of a Classical or GPU function.
RECURSIVE python_instructions(_, _, _, _)
python_instructions(insts, j, func, inline_map) ==
    IF j > Len(insts) THEN <<>>
    ELSE (IF is_inlined(insts[j], inline_map) THEN <<>>
          ELSE generate_python_instruction_with_inline(insts[j], func, inline_map))
         \o python_instructions(insts, j + 1, func, inline_map)

RECURSIVE python_blocks(_, _, _, _)
python_blocks(blocks, k, func, inline_map) ==
    IF k > Len(blocks) THEN <<>>
    ELSE python_instructions(blocks[k].instructions, 1, func, inline_map)
         \o generate_python_terminator_with_inline(blocks[k].terminator, func, inline_map)
         \o python_blocks(blocks, k + 1, func, inline_map)

\* generate_gpu_function_body
generate_gpu_function_body(func) ==
    <<"    # GPU function - NumPy simulation">>
    \o python_blocks(func.blocks, 1, func, build_inline_map(func))

\* generate_classical_function_body
generate_classical_function_body(func) ==
    <<"    # Classical orchestration function">>
    \o python_blocks(func.blocks, 1, func, build_inline_map(func))

\* The gates generate_quantum_instruction_with_inline has an arm for.
orchestrator_gate_of(function) ==
    CASE function \in {"h", "hadamard"} -> "h"
      [] function \in {"x", "pauli_x"} -> "x"
      [] function = "ry" -> "ry"
      [] function \in {"cx", "cnot"} -> "cx"
      [] OTHER -> ""

\* The Call arm of generate_quantum_instruction_with_inline.
quantum_call(inst, func, inline_map) ==
    CASE orchestrator_gate_of(inst.function) \in {"h", "x"} ->
            IF IsIntArg(inst.args, 1)
            THEN <<"    circuit." \o orchestrator_gate_of(inst.function) \o "(qr["
                   \o display_i64(inst.args[1]) \o "])">>
            ELSE <<"    # " \o orchestrator_gate_of(inst.function) \o " gate (invalid args)">>
      [] orchestrator_gate_of(inst.function) = "ry" ->
            IF Len(inst.args) < 2 THEN <<"    # ry gate (missing args)">>
            ELSE IF IsIntArg(inst.args, 1)
                 THEN <<"    circuit.ry("
                        \o python_value_with_inline(inst.args[2], func, inline_map)
                        \o ", qr[" \o display_i64(inst.args[1]) \o "])">>
                 ELSE <<"    # ry gate (invalid qubit)">>
      [] orchestrator_gate_of(inst.function) = "cx" ->
            IF Len(inst.args) < 2 THEN <<"    # cx gate (missing args)">>
            ELSE IF IsIntArg(inst.args, 1) /\ IsIntArg(inst.args, 2)
                 THEN <<"    circuit.cx(qr[" \o display_i64(inst.args[1]) \o "], qr["
                        \o display_i64(inst.args[2]) \o "])">>
                 ELSE <<"    # cx gate (invalid args)">>
      [] OTHER -> <<>>

\* generate_quantum_instruction_with_inline
generate_quantum_instruction_with_inline(inst, func, inline_map) ==
    CASE inst.i = "Load" ->
            <<"    " \o var_name(inst.dest, func) \o " = " \o var_name(inst.array, func)
              \o "[" \o python_value_with_inline(inst.index, func, inline_map) \o "]">>
      [] inst.i = "Assign" ->
            <<"    " \o var_name(inst.dest, func) \o " = "
              \o python_value_with_inline(inst.value, func, inline_map)>>
      [] inst.i = "Call" -> quantum_call(inst, func, inline_map)
      [] OTHER -> <<>>

\* The tests of the loop of generate_quantum_function_body that skip an instruction,
\* with the one on the Assigns left out.
quantum_skips_keeping_assign(inst, inline_map) ==
    (inst.i = "Call" /\ inst.function = "measure") \/ is_inlined(inst, inline_map)

\* The tests of the loop of generate_quantum_function_body that skip an instruction.
quantum_skips(inst, inline_map) ==
    \/ (inst.i = "Call" /\ inst.function = "measure")
    \/ inst.i = "Assign"
    \/ is_inlined(inst, inline_map)

RECURSIVE quantum_instructions(_, _, _, _)
quantum_instructions(insts, j, func, inline_map) ==
    IF j > Len(insts) THEN <<>>
    ELSE (IF quantum_skips(insts[j], inline_map) THEN <<>>
          ELSE generate_quantum_instruction_with_inline(insts[j], func, inline_map))
         \o quantum_instructions(insts, j + 1, func, inline_map)

\* generate_quantum_function_body (measure_vars is computed and never read)
generate_quantum_function_body(func) ==
    <<"    # Quantum function - " \o display_i64(estimate_qubits(func)) \o " qubits",
      "    if not QISKIT_AVAILABLE:",
      "        print(\"Error: Qiskit is required for quantum functions\")",
      "        print(\"Install with: pip install qiskit qiskit-aer qiskit-ibm-runtime\")",
      "        return 0",
      "",
      "    qr = QuantumRegister(" \o display_i64(estimate_qubits(func)) \o ", 'q')",
      "    cr = ClassicalRegister(" \o display_i64(estimate_qubits(func)) \o ", 'c')",
      "    circuit = QuantumCircuit(qr, cr)",
      "">>
    \o quantum_instructions(AllInstructions(func.blocks, 1), 1, func, build_inline_map(func))
    \o <<"",
         "    # Measurements",
         "    circuit.measure(qr, cr)",
         "    counts = run_quantum_circuit(circuit)",
         "    result = extract_measurement(counts)",
         "    return result">>

RECURSIVE param_names(_, _)
param_names(params, j) ==
    IF j > Len(params) THEN <<>> ELSE <<params[j].name>> \o param_names(params, j + 1)

\* generate_function
generate_function(func) ==
    <<"def " \o func.name \o "(" \o Join(param_names(func.params, 1), ", ") \o "):",
      "    \"\"\"Domain: " \o func.domain \o "\"\"\"">>
    \o (CASE func.domain = "Gpu" -> generate_gpu_function_body(func)
          [] func.domain = "Quantum" -> generate_quantum_function_body(func)
          [] func.domain = "Classical" -> generate_classical_function_body(func))

\* The imports and the configuration at the head of the script.
orchestrator_imports ==
    <<"#!/usr/bin/env python3",
      "\"\"\"QuarkDSL Hybrid Orchestrator - Auto-generated\"\"\"",
      "",
      "import numpy as np",
      "try:",
      "    from qiskit import QuantumCircuit, QuantumRegister, ClassicalRegister",
      "    from qiskit_aer import AerSimulator",
      "    from qiskit_ibm_runtime import QiskitRuntimeService, SamplerV2 as Sampler",
      "    QISKIT_AVAILABLE = True",
      "except ImportError:",
      "    QISKIT_AVAILABLE = False",
      "    print(\"Warning: Qiskit not installed. Quantum functions will not work.\")",
      "",
      "# ============================================================================",
      "# Configuration",
      "# ============================================================================",
      "# Environment Variables:",
      "#   DEBUG_MODE=true              - Enable debug output",
      "#   USE_QUANTUM_COMPUTER=true    - Use IBM Quantum (requires IBM_API_KEY)",
      "#   USE_CLOUD_SIMULATOR=true     - Use IBM Cloud Simulator (fast, default when USE_QUANTUM_COMPUTER=true)",
      "#   USE_CLOUD_SIMULATOR=false    - Use real quantum hardware (slow, requires queue time)",
      "#   IBM_API_KEY=your_key         - IBM Quantum API key",
      "# ============================================================================",
      "",
      "import os",
      "",
      "DEBUG_MODE = os.getenv(\"DEBUG_MODE\", \"false\").lower() == \"true\"",
      "USE_QUANTUM_COMPUTER = os.getenv(\"USE_QUANTUM_COMPUTER\", \"false\").lower() == \"true\"",
      "IBM_API_KEY = os.getenv(\"IBM_API_KEY\", \"\")",
      "",
      "if USE_QUANTUM_COMPUTER and not IBM_API_KEY:",
      "    raise ValueError(\"IBM_API_KEY environment variable must be set when USE_QUANTUM_COMPUTER=true\")",
      "">>

\* generate_helpers: the fixed text of the runtime helpers, of which the headings and the
\* line that opens each definition are kept (the bodies are Python that the compiler
\* does not read).
generate_helpers ==
    <<"# ============================================================================",
      "# Helper Functions for Domain Conversions",
      "# ============================================================================",
      "",
      "def encode_angle(data):",
      "def encode_amplitude(data):",
      "def extract_measurement(counts):",
      "def run_quantum_circuit(circuit, shots=1024):",
      "def simulate_gpu_function(func_name, *args):",
      "",
      "">>

RECURSIVE generate_functions(_, _)
\* `for func in &module.functions { generate_function(func); "\n" }`
generate_functions(functions, f) ==
    IF f > Len(functions) THEN <<>>
    ELSE generate_function(functions[f]) \o <<"">> \o generate_functions(functions, f + 1)

\* generate_orchestrator
generate_orchestrator(functions) ==
    orchestrator_imports \o generate_helpers \o generate_functions(functions, 1)

(***************************************************************************)
(* backend/wgsl.rs: the WGSL text of a module, as its lines.               *)
(***************************************************************************)
wgsl_var_name(id) == "v" \o ToString(id)

RECURSIVE wgsl_type(_)
wgsl_type(ty) ==
    CASE ty.ty = "Int" -> "i32"
      [] ty.ty = "Float" -> "f32"
      [] ty.ty = "Bool" -> "bool"
      [] ty.ty = "Array" ->
            IF Len(ty.size) = 1
            THEN "array<" \o wgsl_type(ty.elem) \o ", " \o ToString(ty.size[1]) \o ">"
            ELSE "array<" \o wgsl_type(ty.elem) \o ">"
      [] ty.ty = "Qubit" -> "u32"
      [] ty.ty = "Void" -> "void"

wgsl_binop(op) ==
    CASE op = "Add" -> "+"
      [] op = "Sub" -> "-"
      [] op = "Mul" -> "*"
      [] op = "Div" -> "/"
      [] op = "Mod" -> "%"
      [] op = "Eq" -> "=="
      [] op = "Ne" -> "!="
      [] op = "Lt" -> "<"
      [] op = "Le" -> "<="
      [] op = "Gt" -> ">"
      [] op = "Ge" -> ">="
      [] op = "And" -> "&&"
      [] op = "Or" -> "||"

wgsl_unop(op) == IF op = "Neg" THEN "-" ELSE "!"

RECURSIVE wgsl_codegen_value(_)
RECURSIVE wgsl_codegen_values(_, _)
wgsl_codegen_value(val) ==
    CASE val.k = "Var" -> wgsl_var_name(val.id)
      [] val.k = "Int" -> display_i64(val)
      [] val.k = "Float" -> display_f64(val)
      [] val.k = "Bool" -> IF val.b THEN "true" ELSE "false"
      [] val.k = "Array" ->
            "array(" \o Join(wgsl_codegen_values(val.elems, 1), ", ") \o ")"

\* `.iter().map(codegen_value).collect()`
wgsl_codegen_values(vals, j) ==
    IF j > Len(vals) THEN <<>>
    ELSE <<wgsl_codegen_value(vals[j])>> \o wgsl_codegen_values(vals, j + 1)

\* get_dest_var: an Option, as a sequence; Store and DomainConversion fall to `_ => None`.
wgsl_get_dest_var(inst) ==
    CASE inst.i \in {"Assign", "BinaryOp", "UnaryOp", "Load", "Phi"} -> <<inst.dest>>
      [] inst.i = "Call" -> inst.dest
      [] OTHER -> <<>>

infer_var_type(inst) ==
    CASE inst.i = "Assign" ->
            (CASE inst.value.k = "Int" -> "i32"
               [] inst.value.k = "Float" -> "f32"
               [] inst.value.k = "Bool" -> "bool"
               [] OTHER -> "i32")
      [] inst.i = "BinaryOp" ->
            IF inst.op \in CompareOps \cup LogicOps THEN "bool" ELSE "i32"
      [] inst.i = "UnaryOp" -> IF inst.op = "Not" THEN "bool" ELSE "i32"
      [] OTHER -> "i32"

\* The loop over the instructions that declares a dest when declared_vars.insert says
\* it is new.
RECURSIVE wgsl_declarations(_, _, _)
wgsl_declarations(insts, j, declared_vars) ==
    IF j > Len(insts) THEN <<>>
    ELSE LET dest == wgsl_get_dest_var(insts[j])
         IN  IF Len(dest) = 1 /\ dest[1] \notin declared_vars
             THEN <<"  var " \o wgsl_var_name(dest[1]) \o ": " \o infer_var_type(insts[j])
                        \o ";">>
                  \o wgsl_declarations(insts, j + 1, declared_vars \cup {dest[1]})
             ELSE wgsl_declarations(insts, j + 1, declared_vars)

wgsl_codegen_instruction(inst) ==
    CASE inst.i = "Assign" ->
            wgsl_var_name(inst.dest) \o " = " \o wgsl_codegen_value(inst.value) \o ";"
      [] inst.i = "BinaryOp" ->
            wgsl_var_name(inst.dest) \o " = " \o wgsl_codegen_value(inst.left) \o " "
                \o wgsl_binop(inst.op) \o " " \o wgsl_codegen_value(inst.right) \o ";"
      [] inst.i = "UnaryOp" ->
            wgsl_var_name(inst.dest) \o " = " \o wgsl_unop(inst.op) \o "("
                \o wgsl_codegen_value(inst.operand) \o ");"
      [] inst.i = "Load" ->
            wgsl_var_name(inst.dest) \o " = " \o wgsl_var_name(inst.array) \o "["
                \o wgsl_codegen_value(inst.index) \o "];"
      [] inst.i = "Store" ->
            wgsl_var_name(inst.array) \o "[" \o wgsl_codegen_value(inst.index) \o "] = "
                \o wgsl_codegen_value(inst.value) \o ";"
      [] inst.i = "Call" ->
            (IF Len(inst.dest) = 1 THEN wgsl_var_name(inst.dest[1]) \o " = " ELSE "")
                \o inst.function \o "(" \o Join(wgsl_codegen_values(inst.args, 1), ", ")
                \o ");"
      [] inst.i = "DomainConversion" ->
            wgsl_var_name(inst.dest) \o " = " \o wgsl_codegen_value(inst.source)
                \o "; // conversion " \o inst.from_domain \o " -> " \o inst.to_domain
                \o " (" \o inst.encoding \o ")"

wgsl_codegen_terminator(term) ==
    IF term.t = "Return" THEN "return " \o wgsl_codegen_value(term.value) \o ";"
    ELSE "return;"

\* `name: type` of the parameters, joined by ", ".
RECURSIVE wgsl_params(_, _)
wgsl_params(params, j) ==
    IF j > Len(params) THEN <<>>
    ELSE <<params[j].name \o ": " \o wgsl_type(params[j].ty)>> \o wgsl_params(params, j + 1)

\* The lines of the blocks: a comment for a label other than entry, the instructions,
\* the terminator.
RECURSIVE wgsl_blocks(_, _)
wgsl_blocks(blocks, k) ==
    IF k > Len(blocks) THEN <<>>
    ELSE (IF blocks[k].label # "entry" THEN <<"  // " \o blocks[k].label>> ELSE <<>>)
         \o [j \in 1..Len(blocks[k].instructions) |->
                "  " \o wgsl_codegen_instruction(blocks[k].instructions[j])]
         \o <<"  " \o wgsl_codegen_terminator(blocks[k].terminator)>>
         \o wgsl_blocks(blocks, k + 1)

wgsl_codegen_function(func) ==
    <<"fn " \o func.name \o "(" \o Join(wgsl_params(func.params, 1), ", ") \o ") -> "
          \o wgsl_type(func.return_type) \o " {">>
    \o wgsl_declarations(AllInstructions(func.blocks, 1), 1, {})
    \o <<"">>
    \o wgsl_blocks(func.blocks, 1)
    \o <<"}">>

RECURSIVE wgsl_functions(_, _)
wgsl_functions(functions, f) ==
    IF f > Len(functions) THEN <<>>
    ELSE wgsl_codegen_function(functions[f]) \o <<"">> \o wgsl_functions(functions, f + 1)

wgsl_codegen(functions) ==
    <<"// Generated WGSL code", "">> \o wgsl_functions(functions, 1)

(***************************************************************************)
(* middle/dump.rs: the text of `--dump-ir`, as its lines.                  *)
(***************************************************************************)
\* ir.rs: `impl Display for SSAVar`
display_ssa_var(id) == "%" \o ToString(id)

\* ir.rs: `impl Display for IRType`
RECURSIVE display_ir_type(_)
display_ir_type(ty) ==
    CASE ty.ty = "Int" -> "int"
      [] ty.ty = "Float" -> "float"
      [] ty.ty = "Bool" -> "bool"
      [] ty.ty = "Array" ->
            IF Len(ty.size) = 1
            THEN "[" \o display_ir_type(ty.elem) \o "; " \o ToString(ty.size[1]) \o "]"
            ELSE "[" \o display_ir_type(ty.elem) \o "]"
      [] ty.ty = "Qubit" -> "qubit"
      [] ty.ty = "Void" -> "void"

dump_binop(op) ==
    CASE op = "Add" -> "add"
      [] op = "Sub" -> "sub"
      [] op = "Mul" -> "mul"
      [] op = "Div" -> "div"
      [] op = "Mod" -> "mod"
      [] op = "Eq" -> "eq"
      [] op = "Ne" -> "ne"
      [] op = "Lt" -> "lt"
      [] op = "Le" -> "le"
      [] op = "Gt" -> "gt"
      [] op = "Ge" -> "ge"
      [] op = "And" -> "and"
      [] op = "Or" -> "or"

dump_unop(op) == IF op = "Neg" THEN "neg" ELSE "not"

RECURSIVE dump_value(_)
RECURSIVE dump_values(_, _)
dump_value(val) ==
    CASE val.k = "Var" -> display_ssa_var(val.id)
      [] val.k = "Int" -> display_i64(val)
      [] val.k = "Float" -> display_f64(val)
      [] val.k = "Bool" -> IF val.b THEN "true" ELSE "false"
      [] val.k = "Array" -> "[" \o Join(dump_values(val.elems, 1), ", ") \o "]"

\* `.iter().map(dump_value).collect()`
dump_values(vals, j) ==
    IF j > Len(vals) THEN <<>>
    ELSE <<dump_value(vals[j])>> \o dump_values(vals, j + 1)

dump_instruction(inst) ==
    CASE inst.i = "Assign" -> display_ssa_var(inst.dest) \o " = " \o dump_value(inst.value)
      [] inst.i = "BinaryOp" ->
            display_ssa_var(inst.dest) \o " = " \o dump_binop(inst.op) \o " "
                \o dump_value(inst.left) \o " " \o dump_value(inst.right)
      [] inst.i = "UnaryOp" ->
            display_ssa_var(inst.dest) \o " = " \o dump_unop(inst.op) \o " "
                \o dump_value(inst.operand)
      [] inst.i = "Load" ->
            display_ssa_var(inst.dest) \o " = load " \o display_ssa_var(inst.array) \o "["
                \o dump_value(inst.index) \o "]"
      [] inst.i = "Store" ->
            "store " \o display_ssa_var(inst.array) \o "[" \o dump_value(inst.index)
                \o "] = " \o dump_value(inst.value)
      [] inst.i = "Call" ->
            (IF Len(inst.dest) = 1 THEN display_ssa_var(inst.dest[1]) \o " = " ELSE "")
                \o "call " \o inst.function \o "(" \o Join(dump_values(inst.args, 1), ", ")
                \o ")"
      [] inst.i = "DomainConversion" ->
            display_ssa_var(inst.dest) \o " = convert_" \o inst.from_domain \o "_to_"
                \o inst.to_domain \o "(" \o dump_value(inst.source) \o ", "
                \o inst.encoding \o ")"

dump_terminator(term) ==
    IF term.t = "Return" THEN "return " \o dump_value(term.value) ELSE "return void"

dump_block(block) ==
    <<"  " \o block.label \o ":">>
    \o [j \in 1..Len(block.instructions) |-> "    " \o dump_instruction(block.instructions[j])]
    \o <<"    " \o dump_terminator(block.terminator)>>

\* `name: type` of the parameters, joined by ", ".
RECURSIVE dump_params(_, _)
dump_params(params, j) ==
    IF j > Len(params) THEN <<>>
    ELSE <<params[j].name \o ": " \o display_ir_type(params[j].ty)>>
         \o dump_params(params, j + 1)

RECURSIVE dump_blocks(_, _)
dump_blocks(blocks, k) ==
    IF k > Len(blocks) THEN <<>> ELSE dump_block(blocks[k]) \o dump_blocks(blocks, k + 1)

dump_function(func) ==
    (CASE func.domain = "Gpu" -> <<"@gpu">>
       [] func.domain = "Quantum" -> <<"@quantum">>
       [] OTHER -> <<>>)
    \o <<"fn " \o func.name \o "(" \o Join(dump_params(func.params, 1), ", ") \o ") -> "
             \o display_ir_type(func.return_type) \o " {">>
    \o dump_blocks(func.blocks, 1)
    \o <<"}">>

RECURSIVE dump_ir(_, _)
dump_ir(functions, f) ==
    IF f > Len(functions) THEN <<>>
    ELSE dump_function(functions[f]) \o <<"">> \o dump_ir(functions, f + 1)

(***************************************************************************)
(* cli.rs `run`, Compile: read the input, parse, type check, lower,        *)
(* optimize when -O is given, dump the IR when --dump-ir is given,         *)
(* generate the code of the target, write it.  pc is the stage about to    *)
(* run; iter counts the optimizer passes applied (five per iteration of    *)
(* optimize_function, three iterations), each pass applied to every        *)
(* function of the module.  cli_target is the --target of the command      *)
(* line, read at the match that selects the backend; output is the text    *)
(* the backend returns, as its lines; stdout and file are what the command *)
(* has printed and what it has written to the --output path; result is     *)
(* what run returns: "Ok", or the context of the error.  A flag of the     *)
(* command line is an input of the step that reads it.                     *)
(***************************************************************************)
\* A `?` that goes on after an Err.
next_stage_recovering(err, stage) == stage

\* `?`: an Err ends run, an Ok goes on to the next stage.
next_stage(err, stage) == IF err = "" THEN stage ELSE "failed"

\* `for _ in 0..3` over the five passes of optimize_function.
Iterations == 3
PassCount == 5
Passes == Iterations * PassCount

\* The emitted program has not called run_quantum_circuit.
NotCalled == [at |-> "not called"]

NoModule ==
    [err |-> "", info |-> <<>>, functions |-> <<>>, origins |-> <<>>, names |-> <<>>,
     returns |-> <<>>]

Init ==
    /\ \E family \in 1..Len(Programs) : prog \in Programs[family]
    /\ pc = "typecheck"
    /\ tc = ""
    /\ ir0 = NoModule
    /\ ir = <<>>
    /\ iter = 0
    /\ overflow_checks \in BOOLEAN
    /\ stderr = <<>>
    /\ cli_target = ""
    /\ output = <<>>
    /\ stdout = <<>>
    /\ file = <<>>
    /\ result = ""
    /\ runner = NotCalled

TypeCheck ==
    /\ pc = "typecheck"
    /\ tc' = typecheck(prog)
    /\ stderr' = stderr \o check_program(prog).info
    /\ pc' = next_stage(tc', "lower")
    /\ result' = IF tc' = "" THEN result ELSE "Type checking failed"
    /\ UNCHANGED <<prog, ir0, ir, iter, overflow_checks, cli_target, output, stdout, file, runner>>

Lower ==
    /\ pc = "lower"
    /\ ir0' = lower_to_ir(prog)
    /\ ir' = IF ir0'.err = "" THEN ir0'.functions ELSE <<>>
    /\ stderr' = stderr \o ir0'.info
    /\ pc' = next_stage(ir0'.err, "lowered")
    /\ result' = IF ir0'.err = "" THEN result ELSE "Failed to lower to IR"
    /\ UNCHANGED <<prog, tc, iter, overflow_checks, cli_target, output, stdout, file, runner>>

\* `if optimize { ... }` with the flag unset.
SkipOptimize ==
    /\ pc = "lowered"
    /\ pc' = "codegen"
    /\ UNCHANGED <<prog, tc, ir0, ir, iter, overflow_checks, stderr, cli_target, output,
                   stdout, file, result, runner>>

\* The optimizer is about to run the pass at position n (0..4) of an iteration.
AtPass(n) == pc \in {"lowered", "optimize"} /\ iter < Passes /\ iter % PassCount = n

\* One more pass applied; after the last one the optimizer returns.
Advance ==
    /\ iter' = iter + 1
    /\ pc' = IF iter' = Passes THEN "codegen" ELSE "optimize"
    /\ UNCHANGED <<prog, tc, ir0, overflow_checks, stderr, cli_target, output,
                   stdout, file, result, runner>>

CopyPropagation ==
    /\ AtPass(0)
    /\ ir' = [f \in 1..Len(ir) |-> copy_propagation(ir[f])]
    /\ Advance

\* A panic in constant_folding ends the process.
ConstantFolding ==
    /\ AtPass(1)
    /\ IF \E f \in 1..Len(ir) : constant_folding(ir[f]) = Panicked
       THEN /\ pc' = "panicked"
            /\ UNCHANGED <<prog, tc, ir0, ir, iter, overflow_checks, stderr, cli_target,
                           output, stdout, file, result, runner>>
       ELSE /\ ir' = [f \in 1..Len(ir) |-> constant_folding(ir[f])]
            /\ Advance

InlineSingleUseVars ==
    /\ AtPass(2)
    /\ ir' = [f \in 1..Len(ir) |-> inline_single_use_vars(ir[f])]
    /\ Advance

CommonSubexpressionElimination ==
    /\ AtPass(3)
    /\ ir' = [f \in 1..Len(ir) |-> common_subexpression_elimination(ir[f])]
    /\ Advance

DeadCodeElimination ==
    /\ AtPass(4)
    /\ ir' = [f \in 1..Len(ir) |-> dead_code_elimination(ir[f])]
    /\ Advance

\* `Target::Quantum => crate::backend::quantum::codegen(&ir)?`, and the output written.
CodegenQuantum ==
    /\ pc \in {"codegen", "dumped"}
    /\ cli_target' = "Quantum"
    /\ output' = codegen(ir)
    /\ pc' = "done"
    /\ UNCHANGED <<prog, tc, ir0, ir, iter, overflow_checks, stderr, stdout, file, result, runner>>

\* `Target::Orchestrator => crate::backend::orchestrator::generate_orchestrator(&ir)?`
GenerateOrchestrator ==
    /\ pc \in {"codegen", "dumped"}
    /\ cli_target' = "Orchestrator"
    /\ output' = generate_orchestrator(ir)
    /\ pc' = "done"
    /\ UNCHANGED <<prog, tc, ir0, ir, iter, overflow_checks, stderr, stdout, file, result, runner>>

\* `Target::Wgsl => crate::backend::wgsl::codegen(&ir)?`
CodegenWgsl ==
    /\ pc \in {"codegen", "dumped"}
    /\ cli_target' = "Wgsl"
    /\ output' = wgsl_codegen(ir)
    /\ pc' = "done"
    /\ UNCHANGED <<prog, tc, ir0, ir, iter, overflow_checks, stderr, stdout, file, result, runner>>

Next ==
    \/ TypeCheck
    \/ Lower
    \/ SkipOptimize
    \/ CopyPropagation
    \/ ConstantFolding
    \/ InlineSingleUseVars
    \/ CommonSubexpressionElimination
    \/ DeadCodeElimination
    \/ CodegenWgsl
    \/ CodegenQuantum
    \/ GenerateOrchestrator

Spec == Init /\ [][Next]_vars

(***************************************************************************)
(* The backends as functions of the module: `pub fn codegen(&Module)` and  *)
(* `pub fn generate_orchestrator(&Module)` applied to IR modules drawn     *)
(* from a family, a function of each domain holding a DomainConversion of  *)
(* each encoding whose result is passed to a call.                         *)
(***************************************************************************)
ConversionModules ==
    {<<[name |-> "f",
        params |-> <<[name |-> "x", ty |-> [ty |-> "Int"]]>>,
        return_type |-> [ty |-> "Int"],
        blocks |-> <<BasicBlock("entry",
                                <<DomainConversion(1, source, domain, to_domain, encoding),
                                  Call(<<2>>, "g", <<Var(1)>>)>>,
                                Return(Var(2)))>>,
        next_var_id |-> 3,
        domain |-> domain]>> :
        domain \in Domain, to_domain \in Domain, source \in {Var(0), IntVal(1)},
        encoding \in {"AngleEncoding", "AmplitudeEncoding", "MeasurementExtract"}}

InitIR ==
    /\ prog = <<>>
    /\ pc = "codegen"
    /\ tc = ""
    /\ ir0 = NoModule
    /\ ir \in ConversionModules
    /\ iter = 0
    /\ overflow_checks = FALSE
    /\ stderr = <<>>
    /\ cli_target = ""
    /\ output = <<>>
    /\ stdout = <<>>
    /\ file = <<>>
    /\ result = ""
    /\ runner = NotCalled

NextIR ==
    \/ CodegenWgsl
    \/ CodegenQuantum
    \/ GenerateOrchestrator

SpecIR == InitIR /\ [][NextIR]_vars

(***************************************************************************)
(* The whole command: the stages before the type checker and after the     *)
(* backend.  The source text is not kept: what the parser returns for it   *)
(* is either an error or one of the programs below.                        *)
(***************************************************************************)
CliPrograms ==
    ChainPrograms \cup BadCallPrograms \cup ScopePrograms \cup OverflowPrograms

\* The line `println!("<U+2713> Compiled to {:?}", output_path)` prints, the check
\* mark written by its code point.
compiled_to == "U+2713 Compiled to \"out.py\""

\* `std::fs::read_to_string(&input).with_context(..)?`
ReadInput ==
    /\ pc = "read"
    /\ \E readable \in BOOLEAN :
          /\ pc' = next_stage(IF readable THEN "" ELSE "io", "parse")
          /\ result' = IF readable THEN result ELSE "Failed to read input file"
    /\ UNCHANGED <<prog, tc, ir0, ir, iter, overflow_checks, stderr, cli_target, output,
                   stdout, file, runner>>

\* `crate::frontend::parse(&source).with_context(..)?`
Parse ==
    /\ pc = "parse"
    /\ \E parses \in BOOLEAN :
          /\ pc' = next_stage(IF parses THEN "" ELSE "syntax", "typecheck")
          /\ result' = IF parses THEN result ELSE "Failed to parse source"
          /\ IF parses THEN prog' \in CliPrograms ELSE prog' = prog
    /\ UNCHANGED <<tc, ir0, ir, iter, overflow_checks, stderr, cli_target, output,
                   stdout, file, runner>>

\* `if dump_ir { eprintln!("=== IR ==="); eprintln!("{}", dump_ir(&ir)); eprintln!(); }`
DumpIr ==
    /\ pc = "codegen"
    /\ stderr' = stderr \o <<"=== IR ===">> \o dump_ir(ir, 1) \o <<"", "">>
    /\ pc' = "dumped"
    /\ UNCHANGED <<prog, tc, ir0, ir, iter, overflow_checks, cli_target, output,
                   stdout, file, result, runner>>

\* `else { println!("{}", code); }` and `Ok(())`
WriteStdout ==
    /\ pc = "done"
    /\ stdout' = output
    /\ result' = "Ok"
    /\ pc' = "ok"
    /\ UNCHANGED <<prog, tc, ir0, ir, iter, overflow_checks, stderr, cli_target, output,
                   file, runner>>

\* `std::fs::write(&output_path, code).with_context(..)?; println!(..)` and `Ok(())`
WriteFile ==
    /\ pc = "done"
    /\ \E writable \in BOOLEAN :
          /\ pc' = next_stage(IF writable THEN "" ELSE "io", "ok")
          /\ file' = IF writable THEN output ELSE file
          /\ stdout' = IF pc' = "ok" THEN <<compiled_to>> ELSE stdout
          /\ result' = IF writable THEN "Ok" ELSE "Failed to write output"
    /\ UNCHANGED <<prog, tc, ir0, ir, iter, overflow_checks, stderr, cli_target, output, runner>>

InitCli ==
    /\ prog = <<>>
    /\ pc = "read"
    /\ tc = ""
    /\ ir0 = NoModule
    /\ ir = <<>>
    /\ iter = 0
    /\ overflow_checks \in BOOLEAN
    /\ stderr = <<>>
    /\ cli_target = ""
    /\ output = <<>>
    /\ stdout = <<>>
    /\ file = <<>>
    /\ result = ""
    /\ runner = NotCalled

NextCli ==
    \/ ReadInput
    \/ Parse
    \/ TypeCheck
    \/ Lower
    \/ SkipOptimize
    \/ CopyPropagation
    \/ ConstantFolding
    \/ InlineSingleUseVars
    \/ CommonSubexpressionElimination
    \/ DeadCodeElimination
    \/ DumpIr
    \/ CodegenWgsl
    \/ CodegenQuantum
    \/ GenerateOrchestrator
    \/ WriteStdout
    \/ WriteFile

SpecCli == InitCli /\ [][NextCli]_vars

(***************************************************************************)
(* orchestrator.rs, generate_helpers: the emitted run_quantum_circuit.     *)
(* One call of the runner.  runner.at is the statement about to run;       *)
(* QISKIT_AVAILABLE, USE_QUANTUM_COMPUTER, DEBUG_MODE and the environment  *)
(* variable USE_CLOUD_SIMULATOR are fixed before the call, and             *)
(* _aer_fallback_shown is a global that earlier calls may have set.        *)
(* status is what job.status() returns, changed by the IBM service while   *)
(* the runner waits; observed is the status the `while` condition read     *)
(* last.  printed is what the call has printed, a frame of the animation   *)
(* written as its index.  Calls outside the `try` are taken to return.     *)
(***************************************************************************)
BackendName == "ibm_backend"

Rule == "============================================================"

\* A loop that also ends on a running job.
terminal_statuses_with_running == {"DONE", "ERROR", "CANCELLED", "RUNNING"}

\* `job.status() not in ['DONE', 'ERROR', 'CANCELLED']`
terminal_statuses == {"DONE", "ERROR", "CANCELLED"}

\* The statuses a job goes through at the service.
later_statuses(status) ==
    CASE status = "QUEUED" -> {"RUNNING", "CANCELLED"}
      [] status = "RUNNING" -> {"DONE", "ERROR", "CANCELLED"}
      [] OTHER -> {}

InitRunner ==
    /\ prog = <<>>
    /\ pc = "emitted"
    /\ tc = ""
    /\ ir0 = NoModule
    /\ ir = <<>>
    /\ iter = 0
    /\ overflow_checks = FALSE
    /\ stderr = <<>>
    /\ cli_target = "Orchestrator"
    /\ output = <<>>
    /\ stdout = <<>>
    /\ file = <<>>
    /\ result = ""
    /\ \E qiskit, quantum, cloud, debug, shown \in BOOLEAN :
          runner = [at |-> "start",
                    QISKIT_AVAILABLE |-> qiskit,
                    USE_QUANTUM_COMPUTER |-> quantum,
                    USE_CLOUD_SIMULATOR |-> cloud,
                    DEBUG_MODE |-> debug,
                    aer_fallback_shown |-> shown,
                    available_backends |-> "",
                    local_runs |-> 0,
                    jobs |-> 0,
                    status |-> "",
                    observed |-> "",
                    animation_idx |-> 0,
                    wait_time |-> 0,
                    printed |-> <<>>,
                    returned |-> ""]

Compiler == <<prog, pc, tc, ir0, ir, iter, overflow_checks, stderr, cli_target, output,
              stdout, file, result>>

\* `simulator = AerSimulator(); job = simulator.run(..); return job.result().get_counts()`
run_local(r) ==
    [r EXCEPT !.local_runs = @ + 1, !.returned = "local counts", !.at = "returned"]

\* `if not QISKIT_AVAILABLE: ... return {}`
QiskitMissing ==
    /\ runner.at = "start"
    /\ ~runner.QISKIT_AVAILABLE
    /\ runner' = [runner EXCEPT
           !.printed = @ \o <<"Error: Qiskit is required for quantum circuit execution",
                              "Install with: pip install qiskit qiskit-aer qiskit-ibm-runtime">>,
           !.returned = "{}",
           !.at = "returned"]
    /\ UNCHANGED Compiler

\* `else:  # Use local simulator`
LocalSimulator ==
    /\ runner.at = "start"
    /\ runner.QISKIT_AVAILABLE
    /\ ~runner.USE_QUANTUM_COMPUTER
    /\ runner' = run_local([runner EXCEPT
           !.printed = @ \o (IF runner.DEBUG_MODE
                             THEN <<"Using local Qiskit Aer simulator">> ELSE <<>>)])
    /\ UNCHANGED Compiler

\* `if use_cloud_simulator: try: available_backends = service.backends(simulator=True)`:
\* a backend is found, none is, or the lookup raises; the last two run the `except`.
CloudSimulator ==
    /\ runner.at = "start"
    /\ runner.QISKIT_AVAILABLE
    /\ runner.USE_QUANTUM_COMPUTER
    /\ runner.USE_CLOUD_SIMULATOR
    /\ \E found \in {"backend", "none", "raised"} :
          runner' =
              IF found = "backend"
              THEN [runner EXCEPT
                       !.available_backends = found,
                       !.printed = @ \o (IF runner.aer_fallback_shown THEN <<>>
                                         ELSE <<"Using IBM Cloud Simulator: " \o BackendName>>),
                       !.aer_fallback_shown = TRUE,
                       !.at = "submit"]
              ELSE run_local([runner EXCEPT
                       !.available_backends = found,
                       !.printed = @ \o
                           (IF runner.aer_fallback_shown THEN <<>>
                            ELSE <<"Using local Aer simulator (IBM Cloud Simulator not available in free tier)">>
                                 \o (IF runner.DEBUG_MODE
                                     THEN <<"  Debug: " \o (IF found = "none"
                                                            THEN "No cloud simulator available"
                                                            ELSE "lookup failed")>>
                                     ELSE <<>>)),
                       !.aer_fallback_shown = TRUE])
    /\ UNCHANGED Compiler

\* `else: backend = service.least_busy(operational=True, simulator=False)`
Hardware ==
    /\ runner.at = "start"
    /\ runner.QISKIT_AVAILABLE
    /\ runner.USE_QUANTUM_COMPUTER
    /\ ~runner.USE_CLOUD_SIMULATOR
    /\ runner' = [runner EXCEPT
           !.printed = @ \o (IF runner.aer_fallback_shown THEN <<>>
                             ELSE <<"", Rule,
                                    "Using real IBM Quantum hardware: " \o BackendName,
                                    "WARNING: Jobs may take minutes to hours due to queue times",
                                    Rule, "">>),
           !.aer_fallback_shown = TRUE,
           !.at = "submit"]
    /\ UNCHANGED Compiler

\* `transpiled_circuit = pm.run(circuit)` ... `job = sampler.run([transpiled_circuit], shots=shots)`
Submit ==
    /\ runner.at = "submit"
    /\ runner' = [runner EXCEPT
           !.jobs = @ + 1,
           !.status = "QUEUED",
           !.printed = @ \o (IF runner.DEBUG_MODE
                             THEN <<"Original circuit depth: n", "Transpiled circuit depth: m">>
                             ELSE <<>>)
                        \o <<"", Rule, "Job submitted to IBM Quantum", "Job ID: job",
                             "Backend: " \o BackendName, Rule, "">>,
           !.animation_idx = 0,
           !.wait_time = 0,
           !.at = "while"]
    /\ UNCHANGED Compiler

\* The job moves on at the service.
JobStatus ==
    /\ runner.at \in {"while", "waiting"}
    /\ \E status \in later_statuses(runner.status) :
          runner' = [runner EXCEPT !.status = status]
    /\ UNCHANGED Compiler

\* `while job.status() not in ['DONE', 'ERROR', 'CANCELLED']:`
While ==
    /\ runner.at = "while"
    /\ runner' = [runner EXCEPT
           !.observed = runner.status,
           !.at = IF runner.status \notin terminal_statuses THEN "waiting" ELSE "completed"]
    /\ UNCHANGED Compiler

\* The body of the loop: `status = job.status()`, a frame of the animation, `time.sleep(1)`.
Waiting ==
    /\ runner.at = "waiting"
    /\ runner.wait_time < MaxWait
    /\ runner' = [runner EXCEPT
           !.printed = @ \o
               <<IF ~runner.USE_CLOUD_SIMULATOR
                 THEN "\\r<" \o ToString(runner.animation_idx) \o "> Waiting for quantum job... Status: "
                      \o runner.status \o " | Elapsed: " \o ToString(runner.wait_time \div 60)
                      \o "m " \o ToString(runner.wait_time % 60) \o "s"
                 ELSE "\\r<" \o ToString(runner.animation_idx) \o "> Processing... Status: "
                      \o runner.status>>,
           !.animation_idx = (@ + 1) % 10,
           !.wait_time = @ + 1,
           !.at = "while"]
    /\ UNCHANGED Compiler

\* After the loop: `if job.status() == 'DONE': ... return counts_dict`, `else: ... return {}`
Completed ==
    /\ runner.at = "completed"
    /\ runner' = [runner EXCEPT
           !.printed = @ \o <<"\\rU+2713 Job completed! Status: " \o runner.status
                             \o "                                                  ", "">>
                        \o (IF runner.status = "DONE" THEN <<>>
                            ELSE <<"Job failed with status: " \o runner.status>>),
           !.returned = IF runner.status = "DONE" THEN "counts" ELSE "{}",
           !.at = "returned"]
    /\ UNCHANGED Compiler

NextRunner ==
    \/ QiskitMissing
    \/ LocalSimulator
    \/ CloudSimulator
    \/ Hardware
    \/ Submit
    \/ JobStatus
    \/ While
    \/ Waiting
    \/ Completed

SpecRunner == InitRunner /\ [][NextRunner]_vars

(***************************************************************************)
(* Properties.                                                             *)
(***************************************************************************)
\* The module has been lowered (ir0 holds the lowerer's output).
IsLowered == pc \in {"lowered", "optimize", "codegen"}

\* optimize() has returned.
IsOptimized == pc = "codegen" /\ iter = Passes

Functions == 1..Len(ir)
Insts0(f) == ir0.functions[f].blocks[1].instructions
Insts(f) == ir[f].blocks[1].instructions
NumParams(f) == Len(ir0.functions[f].params)

\* Arguments to run a function on: a few values of each parameter type.
SampleValues(ty) ==
    CASE ty.ty = "Int" -> {IntVal(0), IntVal(2)}
      [] ty.ty = "Float" -> {Float(1, 2)}
      [] ty.ty = "Bool" -> {Bool(TRUE), Bool(FALSE)}
      [] ty.ty = "Array" -> {Array(<<IntVal(5), IntVal(7)>>)}
      [] OTHER -> {IntVal(0)}

RECURSIVE ArgsUpTo(_, _)
ArgsUpTo(params, n) ==
    IF n = 0 THEN {<<>>}
    ELSE {Append(q, v) : q \in ArgsUpTo(params, n - 1), v \in SampleValues(params[n].ty)}

ArgsFor(func) == ArgsUpTo(func.params, Len(func.params))

AllClassical == \A f \in 1..Len(prog) : prog[f].domain = "Classical"

\* C1: for a program of Classical functions, every function returns the same value and
\* has the same sequence of Store/Call effects before and after optimize(), on every
\* input.
C1_OptimizePreservesSemantics ==
    (IsOptimized /\ AllClassical) =>
        \A f \in Functions : \A args \in ArgsFor(ir[f]) :
            Exec(ir0.functions[f], args) = Exec(ir[f], args)

\* The destination of a Call is an Option; every other destination is an SSAVar.
DestId(inst) == IF inst.i = "Call" THEN inst.dest[1] ELSE inst.dest

\* The parameters (SSA ids 0..n-1) and the destinations written before position j of
\* lowered function f.
BoundBefore(f, j) ==
    (0..(NumParams(f) - 1)) \cup UNION {DestOf(Insts0(f)[i]) : i \in 1..(j - 1)}

\* The positions before j where a let or a loop variable binds the name at position j.
BindersBefore(f, j) ==
    {i \in 1..(j - 1) : /\ ir0.origins[f][i] \in {"let", "loopvar"}
                        /\ ir0.names[f][i] = ir0.names[f][j]}

\* The parameters of function f that bear the name at position j.
ParamsNamed(f, j) ==
    {q \in 1..NumParams(f) : ir0.functions[f].params[q].name = ir0.names[f][j]}

Max(S) == CHOOSE x \in S : \A y \in S : y <= x

\* The SSAVar bound to the name at position j when instruction j is emitted: that of
\* its latest let or loop variable, else that of the parameter of that name.
BoundTo(f, j) ==
    IF BindersBefore(f, j) # {} THEN {Insts0(f)[Max(BindersBefore(f, j))].dest}
    ELSE IF ParamsNamed(f, j) # {} THEN {Max(ParamsNamed(f, j)) - 1}
    ELSE {}

RECURSIVE ReturnsIn(_, _)
ReturnsIn(body, j) ==
    IF j > Len(body) THEN 0
    ELSE LET stmt == body[j]
             here ==
                 CASE stmt.s = "Return" -> 1
                   [] stmt.s = "If" ->
                        ReturnsIn(stmt.then_body, 1)
                        + (IF Len(stmt.else_body) = 1 THEN ReturnsIn(stmt.else_body[1], 1) ELSE 0)
                   [] stmt.s = "For" ->
                        IF stmt.start.e = "IntLiteral" /\ stmt.end.e = "IntLiteral"
                        THEN (IF stmt.end.n > stmt.start.n THEN stmt.end.n - stmt.start.n ELSE 0)
                             * ReturnsIn(stmt.body, 1)
                        ELSE ReturnsIn(stmt.body, 1)
                   [] OTHER -> 0
         IN  here + ReturnsIn(body, j + 1)

\* C3: after lowering, every function has exactly one block, labelled entry, whose
\* terminator is ReturnVoid when no return statement was lowered and otherwise Return of
\* the value of the return statement lowered last; it is never Branch or Jump.
C3_SingleEntryBlockLastReturn ==
    (pc = "lowered") =>
        \A f \in Functions :
            LET blocks == ir0.functions[f].blocks
                lowered == ir0.returns[f]
            IN  /\ Len(blocks) = 1
                /\ blocks[1].label = "entry"
                /\ blocks[1].terminator.t \in {"Return", "ReturnVoid"}
                /\ Len(lowered) = ReturnsIn(prog[f].body, 1)
                /\ IF Len(lowered) = 0 THEN blocks[1].terminator = ReturnVoid
                   ELSE blocks[1].terminator = Return(lowered[Len(lowered)])

\* C3 witness: a lowered function with an if or a for in its body and two return
\* statements of different values; the terminator returns the second.
C3_Witness ==
    /\ pc = "lowered"
    /\ \E f \in Functions :
        /\ \E j \in 1..Len(prog[f].body) : prog[f].body[j].s \in {"If", "For"}
        /\ Len(ir0.returns[f]) >= 2
        /\ ir0.returns[f][1] # ir0.returns[f][Len(ir0.returns[f])]
        /\ Len(ir0.functions[f].blocks) = 1
        /\ ir0.functions[f].blocks[1].terminator = Return(ir0.returns[f][Len(ir0.returns[f])])

\* The names reserved for built-ins.
ReservedNames ==
    {"h", "x", "y", "z", "rx", "ry", "rz", "cx", "cnot", "cz", "measure",
     "print", "print_float", "print_array"}

\* The domain the module table holds for a name: that of the last function declared
\* with it, Classical when none is.
DeclaredDomain(name) ==
    LET decls == {g \in 1..Len(prog) : prog[g].name = name}
    IN  IF decls = {} THEN "Classical" ELSE prog[Max(decls)].domain

\* Instruction j of lowered function f is the Call of a call expression to a callee that
\* is not built in and whose domain differs from that of f.
IsCrossDomainCall(f, j) ==
    /\ Insts0(f)[j].i = "Call"
    /\ ir0.origins[f][j] = "call"
    /\ Insts0(f)[j].function \notin ReservedNames
    /\ DeclaredDomain(Insts0(f)[j].function) # prog[f].domain

ConversionsOf(f) == {j \in 1..Len(Insts0(f)) : Insts0(f)[j].i = "DomainConversion"}

\* The programs `let r = callee(args); ...` of one caller after one callee.
IsSingleCallProgram ==
    /\ Len(prog) = 2
    /\ prog[2].body[1].s = "Let"
    /\ prog[2].body[1].value.e = "Call"

\* The arguments of that call lowered on their own, from the state at function entry.
LoweredArgs ==
    lower_expressions(entry_state(CollectDomains(<<>>, prog, 1), prog[2]),
                      prog[2].body[1].value.args, 1, <<>>)

\* C4: a call with k arguments to a callee that is not built in and lies in another
\* domain is lowered to k DomainConversions in argument order, from the caller's domain
\* to the callee's, directly followed by the Call whose i-th argument is the destination
\* of the i-th conversion; the conversions come after the instructions of the arguments
\* and the source of the i-th is the i-th lowered argument.
C4_CrossDomainCallConvertsEachArgument ==
    (pc = "lowered") =>
        /\ \A f \in Functions : \A j \in 1..Len(Insts0(f)) :
              IsCrossDomainCall(f, j) =>
                  LET call == Insts0(f)[j]
                      k == Len(call.args)
                  IN  /\ j > k
                      /\ \A i \in 1..k :
                            LET conv == Insts0(f)[j - k + i - 1]
                            IN  /\ conv.i = "DomainConversion"
                                /\ conv.from_domain = prog[f].domain
                                /\ conv.to_domain = DeclaredDomain(call.function)
                                /\ call.args[i] = Var(conv.dest)
                                /\ conv.source.k = "Var" => conv.source.id \in BoundBefore(f, j - k)
                      /\ (j - k > 1) => Insts0(f)[j - k - 1].i # "DomainConversion"
        /\ IsSingleCallProgram =>
              LET args == LoweredArgs
                  n == Len(args.st.instructions)
                  k == Len(args.vals)
                  callee == prog[2].body[1].value.function
              IN  (callee \notin ReservedNames /\ DeclaredDomain(callee) # prog[2].domain) =>
                      /\ Len(Insts0(2)) > n + k
                      /\ IsCrossDomainCall(2, n + k + 1)
                      /\ SubSeq(Insts0(2), 1, n) = args.st.instructions
                      /\ \A i \in 1..k : Insts0(2)[n + i].source = args.vals[i]
                      /\ Cardinality(ConversionsOf(2)) = k

\* C4 witness: a lowered caller whose cross-domain call has two arguments, the second
\* computed by an instruction; two conversions precede the Call.
C4_Witness ==
    /\ pc = "lowered"
    /\ IsSingleCallProgram
    /\ \E j \in 1..Len(Insts0(2)) :
          /\ IsCrossDomainCall(2, j)
          /\ Len(Insts0(2)[j].args) = 2
          /\ j > 3
          /\ Insts0(2)[j - 3].i = "BinaryOp"
          /\ Insts0(2)[j - 1].i = "DomainConversion"
          /\ Insts0(2)[j - 1].source = Var(Insts0(2)[j - 3].dest)
          /\ Insts0(2)[j].args[2] = Var(Insts0(2)[j - 1].dest)

\* C5: a DomainConversion is emitted only for a call to a callee that is not a reserved
\* name and whose declared domain differs from the domain of the enclosing function: it
\* converts from the enclosing function's domain to a different one and the Call after
\* its group is such a call; the arguments of a Call to a reserved name are never the
\* destinations of conversions, whatever the program declares under that name.
C5_ConversionOnlyForCrossDomainUserCalls ==
    (pc = "lowered") =>
        \A f \in Functions :
            /\ \A j \in ConversionsOf(f) :
                  LET conv == Insts0(f)[j]
                      after == {h \in (j + 1)..Len(Insts0(f)) :
                                   Insts0(f)[h].i # "DomainConversion"}
                  IN  /\ conv.from_domain # conv.to_domain
                      /\ conv.from_domain = prog[f].domain
                      /\ after # {}
                      /\ LET c == CHOOSE h \in after : \A g \in after : h <= g
                         IN  /\ IsCrossDomainCall(f, c)
                             /\ conv.to_domain = DeclaredDomain(Insts0(f)[c].function)
                             /\ Var(conv.dest) \in Range(Insts0(f)[c].args)
            /\ \A j \in 1..Len(Insts0(f)) :
                  (Insts0(f)[j].i = "Call" /\ Insts0(f)[j].function \in ReservedNames) =>
                      /\ \A h \in ConversionsOf(f) :
                            Var(Insts0(f)[h].dest) \notin Range(Insts0(f)[j].args)
                      /\ (j > 1) => Insts0(f)[j - 1].i # "DomainConversion"

\* C5 witness: the program declares a function under a reserved name in a domain other
\* than the caller's, and the lowered caller passes its argument to that Call unwrapped.
C5_Witness ==
    /\ pc = "lowered"
    /\ \E f \in Functions : \E j \in 1..Len(Insts0(f)) :
          /\ Insts0(f)[j].i = "Call"
          /\ Insts0(f)[j].function \in ReservedNames
          /\ \E g \in 1..Len(prog) : prog[g].name = Insts0(f)[j].function
          /\ DeclaredDomain(Insts0(f)[j].function) # prog[f].domain
          /\ Len(Insts0(f)[j].args) > 0
          /\ ConversionsOf(f) = {}

\* The encoding the lowerer is to choose for a pair of domains.
ExpectedEncoding(from, to) ==
    CASE <<from, to>> \in {<<"Classical", "Quantum">>, <<"Gpu", "Quantum">>} -> "AngleEncoding"
      [] <<from, to>> \in {<<"Quantum", "Classical">>, <<"Quantum", "Gpu">>} ->
            "MeasurementExtract"
      [] <<from, to>> \in {<<"Classical", "Gpu">>, <<"Gpu", "Classical">>} -> "AngleEncoding"
      [] OTHER -> "none"

\* C6: the encoding of every DomainConversion of a lowered module is AngleEncoding for
\* Classical->Quantum, GPU->Quantum, Classical->GPU and GPU->Classical, and
\* MeasurementExtract for Quantum->Classical and Quantum->GPU; it is never
\* AmplitudeEncoding.
C6_EncodingByDomainPair ==
    (pc = "lowered") =>
        \A f \in Functions : \A j \in ConversionsOf(f) :
            /\ Insts0(f)[j].encoding =
                   ExpectedEncoding(Insts0(f)[j].from_domain, Insts0(f)[j].to_domain)
            /\ Insts0(f)[j].encoding # "AmplitudeEncoding"

\* C6 witness: a lowered module with a conversion from Quantum to GPU, encoded as
\* MeasurementExtract.
C6_Witness ==
    /\ pc = "lowered"
    /\ \E f \in Functions : \E j \in ConversionsOf(f) :
          /\ Insts0(f)[j].from_domain = "Quantum"
          /\ Insts0(f)[j].to_domain = "Gpu"
          /\ Insts0(f)[j].encoding = "MeasurementExtract"

\* Store, Call and DomainConversion: the instructions with an effect outside the function.
IsEffect(inst) == inst.i \in {"Store", "Call", "DomainConversion"}

\* What identifies such an instruction whatever its operands are rewritten to.
EffectKind(inst) ==
    [i |-> inst.i,
     function |-> IF inst.i = "Call" THEN inst.function ELSE "",
     dest |-> IF inst.i = "Store" THEN <<>> ELSE <<DestId(inst)>>]

EffectKinds(insts) ==
    LET effects == SelectSeq(insts, IsEffect)
    IN  [j \in 1..Len(effects) |-> EffectKind(effects[j])]

\* C7: dead_code_elimination leaves the sequence of Store, Call and DomainConversion
\* instructions of every block as it found it, and no pass of the optimizer removes,
\* adds or reorders such an instruction, whether or not its destination is used.
C7_EffectsSurviveOptimizer ==
    [][(pc \in {"lowered", "optimize"} /\ iter' = iter + 1) =>
          /\ Len(ir') = Len(ir)
          /\ \A f \in Functions :
                /\ Len(ir'[f].blocks) = Len(ir[f].blocks)
                /\ \A bl \in 1..Len(ir[f].blocks) :
                      LET before == ir[f].blocks[bl].instructions
                          after == ir'[f].blocks[bl].instructions
                      IN  /\ EffectKinds(after) = EffectKinds(before)
                          /\ (iter % PassCount = 4) =>
                                SelectSeq(after, IsEffect) = SelectSeq(before, IsEffect)]_vars

\* The variables the instructions and the terminator of an optimized function read.
ReadBy(f) ==
    UNION {ReadsOf(Insts(f)[j]) : j \in 1..Len(Insts(f))}
    \cup (IF ir[f].blocks[1].terminator.t = "Return"
          THEN mark_value_used(ir[f].blocks[1].terminator.value) ELSE {})

\* C7 witness: optimize() has returned a function from which instructions were removed
\* and which still holds a Store and a Call whose destination nothing reads.
C7_Witness ==
    /\ IsOptimized
    /\ \E f \in Functions :
          /\ Len(Insts(f)) < Len(Insts0(f))
          /\ \E j \in 1..Len(Insts(f)) : Insts(f)[j].i = "Store"
          /\ \E j \in 1..Len(Insts(f)) :
                Insts(f)[j].i = "Call" /\ Insts(f)[j].dest[1] \notin ReadBy(f)

\* A literal operand is zero.
IsZero(v) == (v.k = "Int" /\ v.hi = 0 /\ v.n = 0) \/ (v.k = "Float" /\ v.n = 0)

\* The instructions the pass is to rewrite: a BinaryOp of Add, Sub, Mul or Div on two
\* integer literals or two float literals, the right one not zero for Div.
Foldable(inst) ==
    /\ inst.i = "BinaryOp"
    /\ inst.op \in {"Add", "Sub", "Mul", "Div"}
    /\ \/ inst.left.k = "Int" /\ inst.right.k = "Int"
       \/ inst.left.k = "Float" /\ inst.right.k = "Float"
    /\ inst.op = "Div" => ~IsZero(inst.right)

\* What the specification says of a function and the result of constant_folding on it.
FoldsAsSpecified(func, once) ==
    /\ constant_folding(once) = once
    /\ Len(once.blocks) = Len(func.blocks)
    /\ \A bl \in 1..Len(func.blocks) :
          /\ Len(once.blocks[bl].instructions) = Len(func.blocks[bl].instructions)
          /\ once.blocks[bl].terminator = func.blocks[bl].terminator
          /\ \A j \in 1..Len(func.blocks[bl].instructions) :
                LET before == func.blocks[bl].instructions[j]
                    after == once.blocks[bl].instructions[j]
                IN  IF Foldable(before)
                    THEN /\ after.i = "Assign"
                         /\ after.dest = before.dest
                         /\ after.value.k = before.left.k
                    ELSE after = before

\* C8: on every IR function the optimizer hands to it, constant_folding returns a
\* function on which a second run changes nothing, in which every foldable BinaryOp has
\* become an Assign of a literal to the same destination and every other instruction is
\* as it was.
C8_ConstantFoldingIdempotentSelective ==
    (pc \in {"lowered", "optimize"}) =>
        \A f \in Functions :
            /\ constant_folding(ir[f]) # Panicked
            /\ FoldsAsSpecified(ir[f], constant_folding(ir[f]))

\* The programs `fn main() -> int { let x = l op r; return x; }` with l and r integer
\* literals and op r foldable.
IsFoldedLetProgram ==
    /\ Len(prog) = 1
    /\ prog[1].params = <<>>
    /\ Len(prog[1].body) = 2
    /\ prog[1].body[1].s = "Let"
    /\ prog[1].body[1].value.e = "Binary"
    /\ prog[1].body[1].value.op \in {"Add", "Sub", "Mul", "Div"}
    /\ prog[1].body[1].value.left.e = "IntLiteral"
    /\ prog[1].body[1].value.right.e = "IntLiteral"
    /\ prog[1].body[1].value.op = "Div" =>
          (prog[1].body[1].value.right.hi # 0 \/ prog[1].body[1].value.right.n # 0)
    /\ prog[1].body[2] = ReturnStmt(Variable(prog[1].body[1].name))

\* l op r on small integers, division truncating toward zero.
ExactResult(op, l, r) ==
    CASE op = "Add" -> l + r
      [] op = "Sub" -> l - r
      [] op = "Mul" -> l * r
      [] op = "Div" -> (IF (l < 0) = (r < 0) THEN 1 ELSE -1)
                       * ((IF l < 0 THEN -l ELSE l) \div (IF r < 0 THEN -r ELSE r))

\* C9 (as stated): after optimize() such a main holds exactly one instruction, the Assign
\* of an integer literal to v0, and its terminator is Return(Var(v0)).
C9_FoldedLetKeepsOneAssign ==
    (IsOptimized /\ IsFoldedLetProgram) =>
        /\ Len(Insts(1)) = 1
        /\ Insts(1)[1].i = "Assign"
        /\ Insts(1)[1].dest = 0
        /\ Insts(1)[1].value.k = "Int"
        /\ ir[1].blocks[1].terminator = Return(Var(0))

\* C9 (amended): after optimize() such a main holds no instruction and its terminator is
\* Return of an integer literal, the value of l op r (5 for 2 + 3).
C9_FoldedLetReturnsLiteral ==
    (IsOptimized /\ IsFoldedLetProgram) =>
        LET e == prog[1].body[1].value
            term == ir[1].blocks[1].terminator
        IN  /\ Insts(1) = <<>>
            /\ term.t = "Return"
            /\ term.value.k = "Int"
            /\ (e.left.hi = 0 /\ e.right.hi = 0) =>
                  term.value = IntVal(ExactResult(e.op, e.left.n, e.right.n))

\* C9 witness: optimize() has returned for `let x = 2 + 3; return x;` and main is empty
\* and returns the literal 5.
C9_Witness ==
    /\ IsOptimized
    /\ IsFoldedLetProgram
    /\ prog[1].body[1].value = Binary("Add", IntLiteral(2), IntLiteral(3))
    /\ Insts(1) = <<>>
    /\ ir[1].blocks[1].terminator = Return(IntVal(5))

\* The programs `let s = 0; for i in lo..hi { s = s + i; } return s;` with literal bounds.
IsAccumulatorLoop ==
    /\ Len(prog) = 1
    /\ Len(prog[1].body) = 3
    /\ prog[1].body[1] = Let("s", IntLiteral(0))
    /\ prog[1].body[2].s = "For"
    /\ prog[1].body[2].start.e = "IntLiteral"
    /\ prog[1].body[2].end.e = "IntLiteral"
    /\ prog[1].body[2].body =
           <<AssignStmt("s", Binary("Add", Variable("s"), Variable(prog[1].body[2].var)))>>
    /\ prog[1].body[3] = ReturnStmt(Variable("s"))

\* lo + (lo + 1) + ... + (hi - 1).
RECURSIVE SumRange(_, _)
SumRange(lo, hi) == IF lo >= hi THEN 0 ELSE lo + SumRange(lo + 1, hi)

\* C10: after optimize() the accumulator loop returns the sum that in-order execution of
\* the unrolled loop yields (3 for 0..3), on every input, and every variable the
\* function reads is defined before it is read.
C10_AccumulatorLoopReturnsSum ==
    (IsOptimized /\ IsAccumulatorLoop) =>
        /\ DefinedBeforeUse(ir[1])
        /\ \A args \in ArgsFor(ir[1]) :
              Exec(ir[1], args).ret =
                  <<IntVal(SumRange(prog[1].body[2].start.n, prog[1].body[2].end.n))>>

\* The program with the domain of function f changed to D[f].
WithDomains(program, D) ==
    [f \in 1..Len(program) |-> [program[f] EXCEPT !.domain = D[f]]]

\* The callees of the call expressions of an expression, a call before its arguments,
\* otherwise left to right.
RECURSIVE CallsIn(_)
RECURSIVE CallsInAll(_, _)
CallsInAll(exprs, j) ==
    IF j > Len(exprs) THEN <<>> ELSE CallsIn(exprs[j]) \o CallsInAll(exprs, j + 1)

CallsIn(expr) ==
    CASE expr.e = "ArrayLiteral" -> CallsInAll(expr.elements, 1)
      [] expr.e = "Index" -> CallsIn(expr.array) \o CallsIn(expr.index)
      [] expr.e = "Binary" -> CallsIn(expr.left) \o CallsIn(expr.right)
      [] expr.e = "Unary" -> CallsIn(expr.operand)
      [] expr.e = "Call" -> <<expr.function>> \o CallsInAll(expr.args, 1)
      [] expr.e = "Map" -> CallsIn(expr.array)
      [] OTHER -> <<>>

\* The same for the statements of a body, in order.
RECURSIVE CallsOf(_, _)
CallsOf(body, j) ==
    IF j > Len(body) THEN <<>>
    ELSE LET stmt == body[j]
             here == CASE stmt.s = "Assign" ->
                              CallsIn(stmt.value) \o CallsInAll(stmt.index, 1)
                       [] stmt.s = "For" ->
                              CallsIn(stmt.start) \o CallsIn(stmt.end) \o CallsOf(stmt.body, 1)
                       [] stmt.s = "If" ->
                              CallsIn(stmt.condition) \o CallsOf(stmt.then_body, 1)
                              \o (IF Len(stmt.else_body) = 1
                                  THEN CallsOf(stmt.else_body[1], 1) ELSE <<>>)
                       [] OTHER -> CallsIn(stmt.value)
         IN  here \o CallsOf(body, j + 1)

\* The name is declared by the program and is not in the checker's table of built-ins.
IsUserFunction(name) ==
    /\ \E g \in 1..Len(prog) : prog[g].name = name
    /\ name \notin DOMAIN builtin_functions

\* The cross-domain lines the calls of functions f.. to user functions call for.
RECURSIVE CrossDomainCalls(_)
CrossDomainCalls(f) ==
    IF f > Len(prog) THEN <<>>
    ELSE LET calls == CallsOf(prog[f].body, 1)
             lines == [j \in 1..Len(calls) |->
                          [info |-> "Cross-domain call", from |-> prog[f].domain,
                           to |-> DeclaredDomain(calls[j]), function |-> calls[j]]]
             due(line) == IsUserFunction(line.function) /\ line.from # line.to
         IN  SelectSeq(lines, due) \o CrossDomainCalls(f + 1)

\* The lines the type checker wrote about calls to user functions.
CrossDomainLines ==
    LET written(line) == line.info = "Cross-domain call" /\ IsUserFunction(line.function)
    IN  SelectSeq(stderr, written)

\* C17: the type checker returns the same result (acceptance, or the same error) on the
\* program with the domains of its functions changed in any way, so that no call is
\* rejected for the domain of its callee; and on an accepted program it has written one
\* cross-domain line for each call to a user function of another domain, in the order
\* of the calls.
C17_CrossDomainCallsAreNotRejected ==
    (pc \in {"lower", "failed"}) =>
        /\ \A D \in [1..Len(prog) -> Domain] : typecheck(WithDomains(prog, D)) = tc
        /\ tc = "" => CrossDomainLines = CrossDomainCalls(1)

\* A call inside the argument of a call, both to a user function of another domain, has
\* been accepted and reported twice.
C17_Witness ==
    /\ pc = "lower"
    /\ Len(CrossDomainLines) = 2
    /\ \E f \in 1..Len(prog) : prog[f].body[1].s = "Expression"

\* A call with the wrong number of arguments to a function of another domain has been
\* rejected for its arity.
C17_WitnessRejected ==
    /\ pc = "failed"
    /\ tc = "Arity mismatch"
    /\ \E line \in Range(stderr) : line.from # line.to

\* The program is `let u: expected = t; return 0;` on a parameter t.
IsTypeProgram ==
    /\ Len(prog) = 1
    /\ Len(prog[1].params) = 1
    /\ prog[1].params[1].name = "t"
    /\ prog[1].body[1].s = "Let"
    /\ Len(prog[1].body[1].ty) = 1

\* The type with every array size dropped.
RECURSIVE Unsized(_)
Unsized(ty) ==
    CASE ty.ty = "Array" -> TArray(Unsized(ty.elem), <<>>)
      [] ty.ty = "Tensor" -> TTensor(Unsized(ty.elem))
      [] OTHER -> ty

\* C19: on the types of up to two levels of Array and Tensor over the six base types,
\* types_compatible (which decides whether `let u: expected = t` is accepted for t of
\* type actual) is reflexive and symmetric, relates a Tensor and an Array in either
\* direction exactly when it relates their element types, and does not depend on the
\* array sizes at any depth.
C19_TypesCompatibleSymmetricIgnoringSizes ==
    (IsTypeProgram /\ pc # "typecheck") =>
        LET expected == prog[1].body[1].ty[1]
            actual == prog[1].params[1].ty
        IN  /\ (tc = "") = types_compatible(expected, actual)
            /\ types_compatible(expected, expected)
            /\ types_compatible(expected, actual) = types_compatible(actual, expected)
            /\ {expected.ty, actual.ty} = {"Array", "Tensor"} =>
                   types_compatible(expected, actual)
                       = types_compatible(expected.elem, actual.elem)
            /\ types_compatible(expected, actual)
                   = types_compatible(Unsized(expected), Unsized(actual))
            /\ types_compatible(expected, Unsized(expected))

\* A tensor of sized arrays has been accepted where a sized array of tensors is given.
C19_Witness ==
    /\ IsTypeProgram
    /\ pc = "lower"
    /\ tc = ""
    /\ prog[1].body[1].ty[1].ty = "Tensor"
    /\ prog[1].body[1].ty[1].elem.ty = "Array"
    /\ prog[1].body[1].ty[1].elem.size # <<>>
    /\ prog[1].params[1].ty.ty = "Array"
    /\ prog[1].params[1].ty.size # <<>>
    /\ prog[1].params[1].ty.elem.ty = "Tensor"

\* The program is `t[ix] = e; return 0;` on parameters t and e.
IsIndexedAssignProgram ==
    /\ Len(prog) = 1
    /\ Len(prog[1].params) = 2
    /\ prog[1].params[1].name = "t"
    /\ prog[1].body[1].s = "Assign"
    /\ prog[1].body[1].target = "t"
    /\ Len(prog[1].body[1].index) = 1

\* The program is `let y = t[ix]; return 0;` on a parameter t.
IsIndexProgram ==
    /\ Len(prog) = 1
    /\ Len(prog[1].params) = 1
    /\ prog[1].params[1].name = "t"
    /\ prog[1].body[1].s = "Let"
    /\ prog[1].body[1].value.e = "Index"
    /\ prog[1].body[1].value.array = Variable("t")

\* C18: `t[ix] = e` is accepted exactly when ix is an Int and t is an array or a tensor
\* whose element type is compatible with the type of e, and `t[ix]` is accepted when ix
\* is an Int and t is an array or a tensor.
C18_IndexedAssignOnArrayOrTensor ==
    /\ (IsIndexedAssignProgram /\ pc # "typecheck") =>
           LET target == prog[1].params[1].ty
               value == prog[1].params[2].ty
               index == prog[1].body[1].index[1]
           IN  (tc = "") = (/\ index.e = "IntLiteral"
                            /\ target.ty \in {"Array", "Tensor"}
                            /\ types_compatible(target.elem, value))
    /\ (IsIndexProgram /\ pc # "typecheck") =>
           LET target == prog[1].params[1].ty
               index == prog[1].body[1].value.index
           IN  (tc = "") = (index.e = "IntLiteral" /\ target.ty \in {"Array", "Tensor"})

\* An indexed assignment of an int to a tensor of int at an Int index has been rejected.
C18_TensorTargetRejected ==
    /\ IsIndexedAssignProgram
    /\ pc = "failed"
    /\ tc = "Cannot index non-array type"
    /\ prog[1].params[1].ty = TTensor(TInt)
    /\ prog[1].params[2].ty = TInt
    /\ prog[1].body[1].index[1].e = "IntLiteral"

\* C20: on a program the type checker accepted, lowering fails only for an index
\* expression whose base did not lower to a variable; it never fails for an undefined
\* variable.
C20_LoweringFailsOnlyOnIndexedNonVariable ==
    (pc = "failed" /\ tc = "") => ir0.err = "Array indexing requires variable"

\* The loop of `for i in n..n { let t = i; } return i;` has literal bounds that give no
\* iteration, the program was accepted, and lowering failed on the read of i.
C20_LoopVariableUndefinedAfterEmptyLoop ==
    /\ pc = "failed"
    /\ tc = ""
    /\ ir0.err = "Undefined variable"
    /\ prog[1].body[1].s = "For"
    /\ prog[1].body[1].start = prog[1].body[1].end
    /\ prog[1].body[2] = ReturnStmt(Variable("i"))

\* The program is one function whose body has a for loop as its first statement, or as
\* its second after `let s = 0`, followed by a return of a variable.
IsLoopProgram ==
    /\ Len(prog) = 1
    /\ \E n \in 1..2 :
          /\ Len(prog[1].body) = n + 1
          /\ prog[1].body[n].s = "For"
          /\ n = 2 => prog[1].body[1] = Let("s", IntLiteral(0))
          /\ prog[1].body[n + 1].s = "Return"
          /\ prog[1].body[n + 1].value.e = "Variable"

\* The number of instructions an expression and a sequence of statements lower to, from
\* the syntax: one for each operation, index, call and map, one for each let and
\* assignment, none for a literal, a variable or a return.
RECURSIVE InstructionsOf(_)
RECURSIVE InstructionsOfAll(_, _)
InstructionsOfAll(exprs, j) ==
    IF j > Len(exprs) THEN 0 ELSE InstructionsOf(exprs[j]) + InstructionsOfAll(exprs, j + 1)

InstructionsOf(expr) ==
    CASE expr.e = "ArrayLiteral" -> InstructionsOfAll(expr.elements, 1)
      [] expr.e = "Index" -> InstructionsOf(expr.array) + InstructionsOf(expr.index) + 1
      [] expr.e = "Binary" -> InstructionsOf(expr.left) + InstructionsOf(expr.right) + 1
      [] expr.e = "Unary" -> InstructionsOf(expr.operand) + 1
      [] expr.e = "Call" -> InstructionsOfAll(expr.args, 1) + 1
      [] expr.e = "Map" -> InstructionsOf(expr.array) + 1
      [] OTHER -> 0

RECURSIVE InstructionsOfBody(_, _)
InstructionsOfBody(stmts, j) ==
    IF j > Len(stmts) THEN 0
    ELSE LET stmt == stmts[j]
             here == CASE stmt.s = "Let" -> InstructionsOf(stmt.value) + 1
                       [] stmt.s = "Assign" ->
                              InstructionsOf(stmt.value) + InstructionsOfAll(stmt.index, 1) + 1
                       [] OTHER -> InstructionsOf(stmt.value)
         IN  here + InstructionsOfBody(stmts, j + 1)

\* C12: a for loop whose bounds are the integer literals lo and hi is lowered to
\* max(0, hi - lo) copies of (Assign(fresh, Int(i)), body), for i = lo, lo + 1, ...,
\* hi - 1 in this order, and to nothing when lo >= hi; a loop whose start is not a
\* literal is lowered to one copy (Assign(fresh, start value), body).  In each copy
\* the loop variable is bound to the fresh variable of that copy: the body (its
\* instructions and its return statements) reads it and reads the variable of no other
\* copy.
C12_ForLoopUnrolledOncePerIteration ==
    (IsLoopProgram /\ IsLowered) =>
        LET at == Len(prog[1].body) - 1
            loop == prog[1].body[at]
            literal == loop.start.e = "IntLiteral" /\ loop.end.e = "IntLiteral"
            copies == IF ~literal THEN 1
                      ELSE IF loop.end.n > loop.start.n THEN loop.end.n - loop.start.n
                      ELSE 0
            size == 1 + InstructionsOfBody(loop.body, 1)
            returns == Cardinality({q \in 1..Len(loop.body) : loop.body[q].s = "Return"})
            first(m) == (at - 1) + (m - 1) * size + 1
            dest(m) == Insts0(1)[first(m)].dest
            reads(m) ==
                UNION {ReadsOf(Insts0(1)[j]) : j \in (first(m) + 1)..(first(m) + size - 1)}
                \cup UNION {mark_value_used(ir0.returns[1][(m - 1) * returns + q]) :
                                q \in 1..returns}
        IN  /\ Len(Insts0(1)) = (at - 1) + copies * size
            /\ {j \in 1..Len(Insts0(1)) : ir0.origins[1][j] = "loopvar"}
                   = {first(m) : m \in 1..copies}
            /\ \A m \in 1..copies :
                  /\ Insts0(1)[first(m)].i = "Assign"
                  /\ Insts0(1)[first(m)].value =
                         (IF literal THEN IntVal(loop.start.n + m - 1) ELSE Var(0))
                  /\ ir0.names[1][first(m)] = loop.var
                  /\ dest(m) \notin BoundBefore(1, first(m))
                  /\ \A j \in 1..(size - 1) :
                         ir0.origins[1][first(m) + j] = ir0.origins[1][first(1) + j]
                  /\ dest(m) \in reads(m)
                  /\ \A o \in 1..copies : (dest(o) \in reads(m)) => (o = m)

\* A loop over 1..3 has been lowered (two copies), and so has a loop from a parameter.
C12_Witness ==
    /\ IsLoopProgram
    /\ pc = "lowered"
    /\ prog[1].body[Len(prog[1].body) - 1].start = IntLiteral(1)
    /\ prog[1].body[Len(prog[1].body) - 1].end = IntLiteral(3)
    /\ Len(prog[1].body[Len(prog[1].body) - 1].body) = 2

\* The positions of the BinaryOps of a sequence of instructions whose (op, left, right)
\* is key.
Computing(insts, key) ==
    {j \in 1..Len(insts) :
        insts[j].i = "BinaryOp" /\ <<insts[j].op, insts[j].left, insts[j].right>> = key}

\* The keys computed by instructions at two or more positions.
Repeated(insts) ==
    {<<insts[j].op, insts[j].left, insts[j].right>> :
        j \in {n \in 1..Len(insts) : insts[n].i = "BinaryOp"
                   /\ Cardinality(Computing(insts, <<insts[n].op, insts[n].left,
                                                      insts[n].right>>)) >= 2}}

\* The instructions of lowered function f after the first copy propagation.
AfterCopyPropagation(f) == copy_propagation(ir0.functions[f]).blocks[1].instructions

\* C11 (as stated): when two or more BinaryOps have equal (op, left, right) after copy
\* propagation, the IR after optimize() holds exactly one BinaryOp with that
\* (op, left, right).
C11_ExactlyOneAfterOptimize ==
    IsOptimized =>
        \A f \in Functions : \A key \in Repeated(AfterCopyPropagation(f)) :
            Cardinality(Computing(Insts(f), key)) = 1

\* The program is `let x = l1 op1 r1; let y = l2 op2 r2; return ...;`.
IsCseProgram ==
    /\ Len(prog) = 1
    /\ Len(prog[1].body) = 3
    /\ prog[1].body[1].s = "Let" /\ prog[1].body[1].name = "x"
    /\ prog[1].body[1].value.e = "Binary"
    /\ prog[1].body[2].s = "Let" /\ prog[1].body[2].name = "y"
    /\ prog[1].body[2].value.e = "Binary"
    /\ prog[1].body[3].s = "Return"

Min(S) == CHOOSE x \in S : \A y \in S : x <= y

\* The BinaryOps before position j that compute what the BinaryOp at j computes.
EarlierSame(insts, j) ==
    {n \in 1..(j - 1) :
        /\ insts[n].i = "BinaryOp"
        /\ <<insts[n].op, insts[n].left, insts[n].right>>
               = <<insts[j].op, insts[j].left, insts[j].right>>}

\* What common_subexpression_elimination is to make of instruction j.
AfterCse(insts, j) ==
    IF insts[j].i = "BinaryOp" /\ EarlierSame(insts, j) # {}
    THEN Assign(insts[j].dest, Var(insts[Min(EarlierSame(insts, j))].dest))
    ELSE insts[j]

\* C11: every application of common_subexpression_elimination leaves each instruction
\* as it is, except a BinaryOp whose (op, left, right) equals that of an earlier BinaryOp
\* of the function, which becomes Assign(dest, Var(dest of the first such BinaryOp)); the
\* operands are compared in order, so a + b and b + a are different.  After optimize(),
\* of the BinaryOps that were equal after copy propagation at most one is left, and
\* exactly one in `let x = l op r; let y = l op r; return ...` when l and r are not both
\* literals and the return value reads x or y.
C11_CseKeepsFirstOccurrence ==
    /\ [][AtPass(3) =>
              \A f \in Functions :
                  /\ Len(ir'[f].blocks[1].instructions) = Len(Insts(f))
                  /\ \A j \in 1..Len(Insts(f)) :
                         ir'[f].blocks[1].instructions[j] = AfterCse(Insts(f), j)]_vars
    /\ [](IsOptimized =>
              \A f \in Functions : \A key \in Repeated(AfterCopyPropagation(f)) :
                  /\ Cardinality(Computing(Insts(f), key)) <= 1
                  /\ (/\ IsCseProgram
                      /\ ~(key[2].k = "Int" /\ key[3].k = "Int")
                      /\ prog[1].body[3].value # a) =>
                         Cardinality(Computing(Insts(f), key)) = 1)

\* `let x = a + b; let y = a + b; return x + y;` has been optimized to one a + b and
\* the sum of its result with itself.
C11_Witness ==
    /\ IsOptimized
    /\ prog[1].body = <<Let("x", Binary("Add", a, b)), Let("y", Binary("Add", a, b)),
                        ReturnStmt(Binary("Add", Variable("x"), Variable("y")))>>
    /\ Len(Insts(1)) = 2
    /\ Insts(1)[1] = BinaryOp(3, "Add", Var(0), Var(1))
    /\ Insts(1)[2].i = "BinaryOp"
    /\ Insts(1)[2].left = Var(3) /\ Insts(1)[2].right = Var(3)

\* The text begins with the prefix.
StartsWith(text, prefix) ==
    Len(text) >= Len(prefix) /\ SubSeq(text, 1, Len(prefix)) = prefix

\* The line without the spaces of its indentation.
RECURSIVE Unindented(_)
Unindented(line) ==
    IF StartsWith(line, " ") THEN Unindented(SubSeq(line, 2, Len(line))) ELSE line

\* The operations on the circuit in the output, in order: the lines that call a method
\* of `circuit`.
CircuitOps(lines) ==
    SelectSeq([j \in 1..Len(lines) |-> Unindented(lines[j])],
              LAMBDA line : StartsWith(line, "circuit."))

MeasureAll == "circuit.measure(qr, cr)"

\* The statement is a call of a gate of the checker's table on integer-literal qubits.
IsLiteralGate(stmt) ==
    /\ stmt.s = "Expression"
    /\ stmt.value.e = "Call"
    /\ stmt.value.function \in {"h", "x", "y", "z", "ry", "rz", "cx", "cnot"}
    /\ stmt.value.args[1].e = "IntLiteral"
    /\ stmt.value.function \in {"cx", "cnot"} => stmt.value.args[2].e = "IntLiteral"

\* The program is one Quantum function whose body is literal gates and `return 0`.
IsGateProgram ==
    /\ Len(prog) = 1
    /\ prog[1].domain = "Quantum"
    /\ Len(prog[1].params) = 0
    /\ prog[1].body[Len(prog[1].body)] = ReturnStmt(IntLiteral(0))
    /\ \A j \in 1..(Len(prog[1].body) - 1) : IsLiteralGate(prog[1].body[j])

\* The integer literals passed as arguments of the gates, as i64.
LiteralArgs ==
    {I64(lit.hi, lit.n) :
        lit \in {arg \in UNION {Range(prog[1].body[j].value.args) :
                                 j \in 1..(Len(prog[1].body) - 1)} : arg.e = "IntLiteral"}}

\* max(2, 1 + the largest literal argument), as text.
ExpectedQubits ==
    LET top == IF LiteralArgs = {} THEN IntVal(0)
               ELSE CHOOSE m \in LiteralArgs : \A o \in LiteralArgs : ~I64Less(m, o)
    IN  IF top.hi = 0 THEN ToString(Max({2, 1 + top.n}))
        ELSE display_i64(I64(top.hi, top.n + 1))

\* The gate of the table a call stands for, its qubits written by Qubit(_).
GateText(call, Qubit(_)) ==
    "circuit." \o gate_of(call.function) \o "("
    \o (CASE call.function \in {"cx", "cnot"} ->
                Qubit(call.args[1]) \o ", " \o Qubit(call.args[2])
          [] call.function \in {"ry", "rz"} ->
                display_f64(call.args[2]) \o ", " \o Qubit(call.args[1])
          [] OTHER -> Qubit(call.args[1]))
    \o ")"

OnRegister(arg) == "qr[" \o display_i64(arg) \o "]"
Bare(arg) == display_i64(arg)

\* The gates of the body in source order, followed by the one measurement.
ExpectedCircuit(Qubit(_)) ==
    [j \in 1..(Len(prog[1].body) - 1) |-> GateText(prog[1].body[j].value, Qubit)]
    \o <<MeasureAll>>

QuantumOutput == pc = "done" /\ cli_target = "Quantum"

\* The line of the output that declares the quantum register.
RegisterLines(lines) ==
    SelectSeq(lines, LAMBDA line : StartsWith(Unindented(line), "qr = QuantumRegister("))

\* C13: for a Quantum function whose body is a sequence of gate calls on integer-literal
\* qubits, the Quantum backend declares a register of max(2, 1 + largest literal
\* argument) qubits, emits the gates in source order with the qubits written qr[n], and
\* then exactly one circuit.measure(qr, cr).
C13_QuantumBackendGatesOnRegister ==
    (QuantumOutput /\ IsGateProgram) =>
        /\ RegisterLines(output) = <<"qr = QuantumRegister(" \o ExpectedQubits \o ", 'q')">>
        /\ CircuitOps(output) = ExpectedCircuit(OnRegister)

\* The register and the single trailing measurement are as stated, and h, x, y, z, cx and
\* cnot are emitted in source order with the qubits written as bare integers.
C13_BareIntegerGates ==
    (/\ QuantumOutput
     /\ IsGateProgram
     /\ \A j \in 1..(Len(prog[1].body) - 1) :
            prog[1].body[j].value.function \notin {"ry", "rz"}) =>
        /\ RegisterLines(output) = <<"qr = QuantumRegister(" \o ExpectedQubits \o ", 'q')">>
        /\ CircuitOps(output) = ExpectedCircuit(Bare)

\* The bell program compiled by the Quantum backend: circuit.h(0), circuit.cx(0, 1).
C13_BellOutput ==
    /\ QuantumOutput
    /\ prog = <<Function("bell", <<>>, TInt,
                         <<GateCall("h", <<IntLiteral(0)>>),
                           GateCall("cx", <<IntLiteral(0), IntLiteral(1)>>),
                           ReturnStmt(IntLiteral(0))>>, "Quantum")>>
    /\ CircuitOps(output) = <<"circuit.h(0)", "circuit.cx(0, 1)", MeasureAll>>
    /\ RegisterLines(output) = <<"qr = QuantumRegister(2, 'q')">>

\* `ry(0, 0.5)`, as the checker types it, compiled by the Quantum backend: no gate is
\* emitted, the call is written as a comment.
C13_RotationGateNotEmitted ==
    /\ QuantumOutput
    /\ prog[1].body = <<GateCall("ry", <<IntLiteral(0), FloatLiteral(1, 2)>>),
                        ReturnStmt(IntLiteral(0))>>
    /\ CircuitOps(output) = <<MeasureAll>>
    /\ \E j \in 1..Len(output) :
           output[j] = "# Classical: Call { dest: Some(SSAVar { id: 0 }), "
                       \o "function: \"ry\", args: [Int(0), Float(0.5)] }"

OrchestratorOutput == pc = "done" /\ cli_target = "Orchestrator"

\* The lines of the output that open a function of the module: a `def` followed by the
\* docstring of a domain.
FunctionStarts(lines) ==
    {j \in 1..(Len(lines) - 1) :
        StartsWith(lines[j], "def ") /\ StartsWith(lines[j + 1], "    \"\"\"Domain: ")}

\* The text of the function that starts at line j: up to the next start, or the end.
FunctionText(lines, j) ==
    SubSeq(lines, j,
           Min({k - 1 : k \in {n \in FunctionStarts(lines) : n > j}} \cup {Len(lines)}))

\* The texts of the Quantum functions in the output of the orchestrator, in order.
QuantumFunctionTexts(lines) ==
    LET all == FunctionStarts(lines)
        starts == SelectSeq([j \in 1..Len(lines) |-> j],
                            LAMBDA j : /\ j \in all
                                       /\ lines[j + 1] = "    \"\"\"Domain: Quantum\"\"\"")
    IN  [q \in 1..Len(starts) |-> FunctionText(lines, starts[q])]

\* The Quantum functions of the module, in order.
QuantumFunctions == SelectSeq(ir, LAMBDA func : func.domain = "Quantum")

\* The operations hold exactly one measurement, circuit.measure(qr, cr), and it is the last.
OneTrailingMeasure(ops) ==
    /\ Len(ops) >= 1
    /\ ops[Len(ops)] = MeasureAll
    /\ \A j \in 1..(Len(ops) - 1) : ~StartsWith(ops[j], "circuit.measure")

\* The calls of the function other than the measure calls.
GateCalls(func) ==
    SelectSeq(AllInstructions(func.blocks, 1),
              LAMBDA inst : inst.i = "Call" /\ inst.function # "measure")

\* No line of the text assigns the dest of a plain Assign of the function.
NoAssignLine(text, func) ==
    \A j \in 1..Len(AllInstructions(func.blocks, 1)) :
        LET inst == AllInstructions(func.blocks, 1)[j]
        IN  inst.i = "Assign" =>
                \A n \in 1..Len(text) :
                    ~StartsWith(text[n], "    " \o var_name(inst.dest, func) \o " = ")

\* C14: the circuit the Quantum backend emits, and every Quantum function the
\* orchestrator emits, holds exactly one measurement, circuit.measure(qr, cr), after all
\* the gate operations, whatever the number of measure calls in the IR: the operations
\* before it are no more than the calls other than measure, and in the orchestrator no
\* plain Assign of a Quantum function yields a line.
C14_OneTerminalMeasurement ==
    /\ (QuantumOutput /\ Len(ir) > 0) =>
           /\ OneTrailingMeasure(CircuitOps(output))
           /\ Len(CircuitOps(output)) - 1 <= Len(GateCalls(circuit_function(ir)[1]))
    /\ OrchestratorOutput =>
           LET texts == QuantumFunctionTexts(output)
           IN  /\ Len(texts) = Len(QuantumFunctions)
               /\ \A q \in 1..Len(QuantumFunctions) :
                      LET ops == CircuitOps(texts[q])
                      IN  /\ OneTrailingMeasure(ops)
                          /\ Len(ops) - 1 <= Len(GateCalls(QuantumFunctions[q]))
                          /\ NoAssignLine(texts[q], QuantumFunctions[q])

\* A Quantum function with a gate, a measure call and the Assign of `let m = measure(1)`
\* has been emitted by the orchestrator: the h gate, then the one measurement.
C14_Witness ==
    /\ OrchestratorOutput
    /\ Len(ir) = 1
    /\ ir[1].domain = "Quantum"
    /\ \E j \in 1..Len(Insts(1)) : Insts(1)[j].i = "Call" /\ Insts(1)[j].function = "measure"
    /\ \E j \in 1..Len(Insts(1)) : Insts(1)[j].i = "Assign"
    /\ CircuitOps(QuantumFunctionTexts(output)[1]) = <<"circuit.h(qr[0])", MeasureAll>>

\* The Quantum backend has emitted a circuit for a body with two measure calls.
C14_WitnessQuantumBackend ==
    /\ QuantumOutput
    /\ Len(ir) = 1
    /\ Len(SelectSeq(Insts(1), LAMBDA inst : inst.i = "Call" /\ inst.function = "measure")) = 2
    /\ CircuitOps(output) = <<MeasureAll>>

\* C15: when the orchestrator emits a Quantum function whose body is gate calls on
\* integer-literal qubits, every call yields its gate-builder call on the circuit, in
\* order, before the terminal measurement: none is dropped.
C15_OrchestratorEmitsEveryGate ==
    (OrchestratorOutput /\ IsGateProgram) =>
        CircuitOps(QuantumFunctionTexts(output)[1]) = ExpectedCircuit(OnRegister)

\* The same for the bodies that call h, x, ry, cx and cnot only.
C15_GatesWithAnArm ==
    (/\ OrchestratorOutput
     /\ IsGateProgram
     /\ \A j \in 1..(Len(prog[1].body) - 1) :
            prog[1].body[j].value.function \in {"h", "x", "ry", "cx", "cnot"}) =>
        CircuitOps(QuantumFunctionTexts(output)[1]) = ExpectedCircuit(OnRegister)

\* `h(0); y(0);` emitted by the orchestrator: the circuit holds the h gate and the
\* measurement, and no y gate.
C15_PauliYDropped ==
    /\ OrchestratorOutput
    /\ prog[1].body = <<GateCall("h", <<IntLiteral(0)>>), GateCall("y", <<IntLiteral(0)>>),
                        ReturnStmt(IntLiteral(0))>>
    /\ CircuitOps(output) = <<"circuit.h(qr[0])", MeasureAll>>

\* The texts of the functions in the output of the orchestrator, in order.
FunctionTexts(lines) ==
    LET starts == SelectSeq([j \in 1..Len(lines) |-> j],
                            LAMBDA j : j \in FunctionStarts(lines))
    IN  [f \in 1..Len(starts) |-> FunctionText(lines, starts[f])]

\* The DomainConversions of a Classical or GPU function.
ConversionsIn(func) ==
    IF func.domain \in {"Classical", "Gpu"}
    THEN SelectSeq(AllInstructions(func.blocks, 1), LAMBDA inst : inst.i = "DomainConversion")
    ELSE <<>>

\* The text assigns the dest of the conversion from a call of the helper.
ConvertedBy(text, func, inst, helper) ==
    \E n \in 1..Len(text) :
        StartsWith(text[n], "    " \o var_name(inst.dest, func) \o " = " \o helper \o "(")

C16_MeasurementExtractAsEncodeAngle ==
    /\ OrchestratorOutput
    /\ ir[1].domain = "Classical"
    /\ Insts(1)[1] = DomainConversion(1, Var(0), "Classical", "Quantum", "MeasurementExtract")
    /\ \E n \in 1..Len(output) : output[n] = "    v1 = encode_angle(x)"

\* A conversion the lowerer inserted in a Classical or GPU function has been emitted.
C16_LoweredConversionEmitted ==
    /\ OrchestratorOutput
    /\ \E f \in 1..Len(ir) : Len(ConversionsIn(ir[f])) > 0

\* Every conversion of a Classical or GPU function is an AngleEncoding.
C16_OnlyAngleEncoding ==
    \A f \in 1..Len(ir) : \A j \in 1..Len(ConversionsIn(ir[f])) :
        ConversionsIn(ir[f])[j].encoding = "AngleEncoding"

\* The body of the `for _ in 0..3` of optimize_function: the five passes in order; a
\* panic in constant_folding ends it.
optimize_iteration(func) ==
    IF constant_folding(copy_propagation(func)) = Panicked THEN Panicked
    ELSE dead_code_elimination(
             common_subexpression_elimination(
                 inline_single_use_vars(
                     constant_folding(copy_propagation(func)))))

\* C21: after optimize_function, one more application of the five passes leaves every
\* function unchanged (same instructions and terminators).
C21_OptimizerReachesFixedPoint ==
    IsOptimized => \A f \in Functions : optimize_iteration(ir[f]) = ir[f]

\* The lowerer has returned and no pass has run: ir is the lowered module.
JustLowered == pc = "lowered" /\ iter = 0

\* The two passes applied in turn, starting with copy_propagation or with
\* dead_code_elimination, until a round changes nothing; a function of n variables is
\* given n + 2 rounds, and a run that has not settled by then is reported as such.
RECURSIVE until_unchanged(_, _, _)
until_unchanged(func, copy_first, rounds) ==
    LET round == IF copy_first
                 THEN dead_code_elimination(copy_propagation(func))
                 ELSE copy_propagation(dead_code_elimination(func))
    IN  IF round = func THEN func
        ELSE IF rounds = 0 THEN [unsettled |-> TRUE]
             ELSE until_unchanged(round, copy_first, rounds - 1)

\* C22: on every lowered function, copy_propagation once then dead_code_elimination
\* once gives the IR that the two passes give when repeated until neither changes it,
\* whichever of the two is applied first.
C22_CopyPropagationThenDceIsFixedPoint ==
    JustLowered =>
        \A f \in Functions :
            LET once == dead_code_elimination(copy_propagation(ir[f]))
            IN  /\ once = until_unchanged(ir[f], TRUE, ir[f].next_var_id + 2)
                /\ once = until_unchanged(ir[f], FALSE, ir[f].next_var_id + 2)

\* A chain of two copies has been lowered: one application of the two passes leaves
\* `v1 = a; return v1`, which a second application rewrites to `return a`.
C22_TwoCopiesNeedTwoRounds ==
    /\ JustLowered
    /\ Len(ir) = 1
    /\ Insts(1) = <<Assign(1, Var(0)), Assign(2, Var(1))>>
    /\ dead_code_elimination(copy_propagation(ir[1])).blocks[1].instructions
           = <<Assign(1, Var(0))>>
    /\ until_unchanged(ir[1], TRUE, 4).blocks[1].instructions = <<>>
    /\ until_unchanged(ir[1], TRUE, 4).blocks[1].terminator = Return(Var(0))

\* Every instruction of the function is an Assign or a BinaryOp.
OnlyAssignAndBinaryOp(func) ==
    \A j \in 1..Len(AllInstructions(func.blocks, 1)) :
        AllInstructions(func.blocks, 1)[j].i \in {"Assign", "BinaryOp"}

cse_then_copy(func) == copy_propagation(common_subexpression_elimination(func))
copy_then_cse(func) == common_subexpression_elimination(copy_propagation(func))

SameResult(f1, f2) == \A args \in ArgsFor(f1) : Exec(f1, args) = Exec(f2, args)

Ended == pc \in {"failed", "panicked", "ok"}

\* The stage a completed stage hands over to.
Following(stage) ==
    CASE stage = "read" -> {"parse"}
      [] stage = "parse" -> {"typecheck"}
      [] stage = "typecheck" -> {"lower"}
      [] stage = "lower" -> {"lowered"}
      [] stage = "lowered" -> {"optimize", "codegen"}
      [] stage = "optimize" -> {"optimize", "codegen"}
      [] stage = "codegen" -> {"dumped", "done"}
      [] stage = "dumped" -> {"done"}
      [] stage = "done" -> {"ok"}
      [] OTHER -> {}

StagesInOrder ==
    /\ ~Ended
    /\ pc' \in Following(pc) \cup {"failed", "panicked"}
    /\ prog' # prog => pc = "parse"
    /\ tc' # tc => pc = "typecheck"
    /\ ir0' # ir0 => pc = "lower"
    /\ iter' # iter => pc \in {"lowered", "optimize"}
    /\ (pc = "optimize" /\ pc' = "codegen") => iter' = Passes
    /\ output' # output => pc \in {"codegen", "dumped"}
    /\ (stdout' # stdout \/ file' # file) => (pc = "done" /\ pc' = "ok")

FailureEndsTheCommand ==
    /\ pc = "failed" <=> result \notin {"", "Ok"}
    /\ pc = "ok" <=> result = "Ok"
    /\ (tc # "" \/ ir0.err # "") => pc = "failed"
    /\ pc # "ok" => (stdout = <<>> /\ file = <<>>)
    /\ pc \in {"failed", "panicked"} => output = <<>> \/ result = "Failed to write output"

FellBack ==
    runner.USE_CLOUD_SIMULATOR /\ runner.available_backends \in {"none", "raised"}

OneLocalRunNoJob ==
    runner.local_runs = 1 /\ runner.jobs = 0 /\ runner.returned = "local counts"

OneJobPolledToTheEnd ==
    /\ runner.jobs = 1 /\ runner.local_runs = 0
    /\ runner.observed \in {"DONE", "ERROR", "CANCELLED"}
    /\ runner.returned = IF runner.observed = "DONE" THEN "counts" ELSE "{}"

KeepsPolling ==
    /\ runner.jobs <= 1
    /\ runner.at = "waiting" => runner.observed \notin {"DONE", "ERROR", "CANCELLED"}
    /\ runner.at = "completed" => runner.observed \in {"DONE", "ERROR", "CANCELLED"}
    /\ runner.at \in {"submit", "while", "waiting", "completed"} => runner.returned = ""

C25_WitnessFallback ==
    /\ runner.at = "returned"
    /\ runner.USE_QUANTUM_COMPUTER /\ runner.QISKIT_AVAILABLE
    /\ runner.available_backends = "raised"
    /\ runner.local_runs = 1


(***************************************************************************)
(* The inlining printer of the orchestrator.                               *)
(***************************************************************************)
Digits == {"0", "1", "2", "3", "4", "5", "6", "7", "8", "9"}

\* The line holds the name as a whole word: not followed by a digit, and at the start of
\* the line or after a space, a bracket or a sign.
Mentions(line, name) ==
    \E j \in 1..(Len(line) - Len(name) + 1) :
        /\ SubSeq(line, j, j + Len(name) - 1) = name
        /\ \/ j + Len(name) > Len(line)
           \/ SubSeq(line, j + Len(name), j + Len(name)) \notin Digits
        /\ \/ j = 1
           \/ SubSeq(line, j - 1, j - 1) \in {" ", "(", "[", "-"}

\* The destinations whose instruction generate_classical_function_body skips.
Suppressed(func) == DOMAIN build_inline_map(func)

\* C26: in the text the orchestrator emits for a Classical or GPU function, no line
\* refers to a name v<id> whose defining instruction was suppressed because the
\* destination is in the inline map.
C26_NoSuppressedNameEmitted ==
    OrchestratorOutput =>
        \A f \in Functions :
            ir[f].domain \in {"Classical", "Gpu"} =>
                LET text == FunctionTexts(output)[f]
                IN  \A id \in Suppressed(ir[f]), n \in 1..Len(text) :
                        ~Mentions(text[n], "v" \o ToString(id))

\* `let x = b; let y = x + b; let z = a + b; return y;`: the Assign to y is inlined in
\* pass 1 as the name of the BinaryOp it copies, and the BinaryOp in pass 2.
C26_ReturnOfSuppressedName ==
    /\ OrchestratorOutput
    /\ iter = 0
    /\ Len(ir) = 1 /\ Len(Insts(1)) >= 3
    /\ Insts(1)[2].i = "BinaryOp" /\ Insts(1)[3] = Assign(4, Var(3))
    /\ ir[1].blocks[1].terminator = Return(Var(4))
    /\ {3, 4} \subseteq Suppressed(ir[1])
    /\ build_inline_map(ir[1])[4] = "v3"
    /\ \E n \in 1..Len(output) : output[n] = "    return v3"


(***************************************************************************)
(* Liveness in dead_code_elimination.                                      *)
(***************************************************************************)
\* The variables the function reads, in an instruction or in a terminator, and those it
\* defines: the parameters and the destinations of its instructions.
ReadIn(func) ==
    UNION {ReadsOf(inst) : inst \in Range(AllInstructions(func.blocks, 1))}
    \cup UNION {IF func.blocks[k].terminator.t = "Return"
                THEN mark_value_used(func.blocks[k].terminator.value)
                ELSE {} : k \in 1..Len(func.blocks)}

DefinedIn(func) ==
    0..(Len(func.params) - 1)
    \cup UNION {DestOf(inst) : inst \in Range(AllInstructions(func.blocks, 1))}

AfterDeadCodeElimination ==
    pc \in {"optimize", "codegen"} /\ iter > 0 /\ iter % PassCount = 0

\* C27: after dead_code_elimination, and after the whole optimizer, every variable a
\* remaining instruction or terminator reads, the array of a Load or Store included, is
\* a parameter or the destination of a remaining instruction.
C27_ReadsAreDefinedAfterDce ==
    AfterDeadCodeElimination =>
        \A f \in Functions : ReadIn(ir[f]) \subseteq DefinedIn(ir[f])


(***************************************************************************)
(* The declarations of the WGSL backend.                                   *)
(***************************************************************************)
WgslOutput == pc = "done" /\ cli_target = "Wgsl"

\* The text of function f in the output of the WGSL backend: from its `fn` line up to
\* the next one, or the end.
WgslFunctionText(lines, f) ==
    LET starts == SelectSeq([j \in 1..Len(lines) |-> j], LAMBDA j : StartsWith(lines[j], "fn "))
    IN  SubSeq(lines, starts[f], IF f < Len(starts) THEN starts[f + 1] - 1 ELSE Len(lines))

\* The lines of the text before its first empty line that declare the variable.
DeclarationsOf(text, id) ==
    LET first_empty == Min({n \in 1..Len(text) : text[n] = ""})
    IN  {n \in 1..(first_empty - 1) : StartsWith(text[n], "  var v" \o ToString(id) \o ": ")}

\* C28: for every IR function the WGSL backend emits, before the first instruction,
\* exactly one `var v<id>` declaration for each variable that is the destination of an
\* instruction of the function, the destinations of DomainConversions included.
C28_EveryDestinationDeclaredOnce ==
    WgslOutput =>
        \A f \in Functions :
            \A id \in UNION {DestOf(inst) : inst \in Range(AllInstructions(ir[f].blocks, 1))} :
                Cardinality(DeclarationsOf(WgslFunctionText(output, f), id)) = 1

\* The destination of the conversion of a cross-domain call is assigned and not declared.
C28_ConversionAssignedUndeclared ==
    /\ WgslOutput
    /\ \E f \in Functions : \E inst \in Range(AllInstructions(ir[f].blocks, 1)) :
          /\ inst.i = "DomainConversion"
          /\ DeclarationsOf(WgslFunctionText(output, f), inst.dest) = {}
          /\ \E n \in 1..Len(output) :
                StartsWith(output[n], "  v" \o ToString(inst.dest) \o " = ")


(***************************************************************************)
(* The numbering of SSA variables.                                         *)
(***************************************************************************)
\* The Lowerer at the first statement of function f of the program.
AtEntry(f) == entry_state(CollectDomains(<<>>, prog, 1), prog[f])

\* Parameter p of the function is the last one of its name.
LastOfItsName(func, p) ==
    \A q \in (p + 1)..Len(func.params) : func.params[q].name # func.params[p].name

DenseFromZero(f) ==
    LET func == ir0.functions[f]
        k == Len(func.params)
    IN  /\ AtEntry(f).var_counter = k
        /\ \A p \in 1..k :
              LastOfItsName(prog[f], p) => AtEntry(f).var_map[prog[f].params[p].name] = p - 1
        /\ func.next_var_id = Cardinality(DefinedIn(func))
        /\ ReadIn(func) \cup DefinedIn(func) \subseteq 0..(func.next_var_id - 1)
        /\ k..(func.next_var_id - 1)
               \subseteq UNION {DestOf(inst) : inst \in Range(AllInstructions(func.blocks, 1))}

\* C29: in every function of a lowered module, whatever was lowered before it, the
\* i-th parameter has id i, next_var_id is the number of variables allocated, every
\* variable of the function has an id below next_var_id, and every id from the number
\* of parameters up to next_var_id is the destination of an instruction.
C29_IdsDensePerFunction ==
    ir0.err = "" => \A f \in 1..Len(ir0.functions) : DenseFromZero(f)

\* A second function whose first destination follows its one parameter, after a first
\* function that allocated variables of its own.
C29_Witness ==
    /\ pc = "lowered"
    /\ Len(ir0.functions) = 2
    /\ ir0.functions[1].next_var_id >= 2
    /\ Len(ir0.functions[2].params) = 1
    /\ Len(ir0.functions[2].blocks[1].instructions) >= 2
    /\ DestOf(ir0.functions[2].blocks[1].instructions[1]) = {1}
    /\ ir0.functions[2].next_var_id >= 3


(***************************************************************************)
(* Inlined Loads and Stores.                                               *)
(***************************************************************************)
\* The text holds the other somewhere.
Contains(text, part) ==
    \E j \in 1..(Len(text) - Len(part) + 1) : SubSeq(text, j, j + Len(part) - 1) = part

\* What instruction n of the function reads through its operands; n one past the last
\* instruction is the terminator.
OperandsAt(func, n) ==
    LET insts == AllInstructions(func.blocks, 1)
        term == func.blocks[Len(func.blocks)].terminator
    IN  IF n <= Len(insts)
        THEN UNION {mark_value_used(get_operands(insts[n])[j]) :
                        j \in 1..Len(get_operands(insts[n]))}
        ELSE IF term.t = "Return" THEN mark_value_used(term.value) ELSE {}

\* The lines emitted for position n.
EmittedFor(func, n) ==
    LET insts == AllInstructions(func.blocks, 1)
    IN  IF n <= Len(insts)
        THEN generate_python_instruction_with_inline(insts[n], func, build_inline_map(func))
        ELSE generate_python_terminator_with_inline(func.blocks[Len(func.blocks)].terminator,
                                                    func, build_inline_map(func))

\* Where the text of an inlined variable is emitted: at the one position that reads the
\* variable, or, when that instruction is suppressed as well, where its text is.
RECURSIVE UseSite(_, _)
UseSite(func, id) ==
    LET insts == AllInstructions(func.blocks, 1)
        n == CHOOSE n \in 1..(Len(insts) + 1) : id \in OperandsAt(func, n)
    IN  IF n <= Len(insts) /\ is_inlined(insts[n], build_inline_map(func))
        THEN UseSite(func, get_dest_var(insts[n])[1])
        ELSE n

\* Load n is inlined and rendered after Store s, which follows it in the IR and writes
\* the array it read.
RenderedPastStore(func, n, s) ==
    LET insts == AllInstructions(func.blocks, 1)
        inline_map == build_inline_map(func)
    IN  /\ insts[n].i = "Load" /\ insts[n].dest \in DOMAIN inline_map
        /\ insts[s].i = "Store" /\ insts[s].array = insts[n].array
        /\ n < s /\ s < UseSite(func, insts[n].dest)
        /\ \E l \in 1..Len(EmittedFor(func, UseSite(func, insts[n].dest))) :
              Contains(EmittedFor(func, UseSite(func, insts[n].dest))[l],
                       inline_map[insts[n].dest])

\* C30: in a Classical or GPU function the orchestrator emits, an inlined Load is
\* rendered at its use only if no Store to the same array is emitted between the Load
\* and that use, so the use reads the value the Load read.
C30_InlinedLoadNotMovedPastStore ==
    OrchestratorOutput =>
        \A f \in Functions :
            ir[f].domain \in {"Classical", "Gpu"} =>
                \A n, s \in 1..Len(AllInstructions(ir[f].blocks, 1)) :
                    ~RenderedPastStore(ir[f], n, s)

\* `let x = a[0]; a[0] = 5; return x;` is emitted as the store followed by a return of
\* the element.
C30_ReturnsStoredValue ==
    /\ OrchestratorOutput
    /\ iter = 0
    /\ prog \in StorePrograms
    /\ \E n \in 1..(Len(output) - 1) :
          output[n] = "    a[0] = 5" /\ output[n + 1] = "    return a[0]"

====
